---------------------------- MODULE Spec2Model ----------------------------
(***************************************************************************)
(* Model of the HPP calculator's calculation-and-state engine:            *)
(*   - StateManager   (src/js/components/StateManager.js)                  *)
(*   - HPPCalculator  (src/js/components/HPPCalculator.js)                 *)
(*   - ValidationManager (src/js/utils/validation.js)                      *)
(*   - PreferencesStorage / NumberHelper (src/js/utils/storage.js)         *)
(*                                                                         *)
(* The specifications of the module:                                       *)
(*   Spec      the state container (setState, updateState, subscriptions,  *)
(*             initialisation and the asynchronous tail of saveToStorage)  *)
(*   CalcSpec  the calculation engine (calculate, clearCache) with the     *)
(*             validator it calls                                          *)
(*   ValidSpec the validation manager called directly (validateField,      *)
(*             validateAll, validateHPPData)                               *)
(*   AppSpec   the application's calculation handler and the calculation   *)
(*             list of the state tree (handleCalculation, StateActions)    *)
(*   ImportSpec the container's snapshots and imports (getState, import)   *)
(*   StoreSpec the stored calculation list (saveCalculation,               *)
(*             importCalculations)                                         *)
(*   StorageSpec the storage managers called directly, on an available     *)
(*             and on an unavailable backing store                         *)
(*   LifeSpec  the container's reset, destruction and auto-save timer      *)
(*   QuietSpec one write on the initialised container and the saves that   *)
(*             follow it, with the microtask queue always served           *)
(***************************************************************************)
EXTENDS Integers, Sequences, FiniteSets, TLC

VARIABLES
  \* ---- StateManager ----
  state,          \* this.state: the application state tree (a JS object)
  history,        \* this.history: the change log, newest first
  subscribers,    \* this.subscribers: Map key -> list of subscriptions
  isLoading,      \* this.isLoading
  microtasks,     \* the microtask queue: "init" for an init() suspended at
                  \* `await this.loadFromStorage()`, "save" for a saveToStorage()
                  \* suspended at `await savePreferences(...)`
  draining,       \* TRUE while the event loop is running the microtask queue
  inits,          \* number of init() calls made so far
  timers,         \* setInterval timers armed by setupAutoSave
  storage,        \* localStorage: the items hpp_pref_hpp_preferences (prefs)
                  \* and hpp_calc_hpp_calculations (calcs), each a value or NoItem
  isAvailable,    \* BaseStorage.isAvailable
  now,            \* the wall clock read by new Date()
  nextSubId,      \* source of subscription ids
  steps,          \* number of operations performed so far (bounds the run)
  last,           \* the operation performed last, with its arguments
  emits,          \* events emitted by the last operation, in order
  calls,          \* subscriber callbacks invoked by the last operation
  saveCalls,      \* saveToStorage() calls made by the last operation
  \* ---- HPPCalculator ----
  options,        \* this.options
  cache,          \* this.cache: Map cacheKey -> result object
  results,        \* every HPPResult constructed so far (object id = index)
  calculationHistory, \* this.calculationHistory, newest first
  cbLog,          \* callbacks triggered by the last engine operation
  outcome,        \* what the last engine operation returned or threw
  served,         \* inputs answered since the last clearCache (observer)
  successes,      \* number of calculate calls that returned a result (observer)
  calcSteps,      \* number of engine operations performed so far
  \* ---- direct calls of the validation and storage interfaces ----
  ret,            \* the last such call and what it returned
  destroyed       \* destroy() has been called on the container

smVars == <<state, history, subscribers, isLoading, microtasks, draining,
            inits, timers, storage, isAvailable, now, nextSubId, steps,
            last, emits, calls, saveCalls>>
calcVars == <<options, cache, results, calculationHistory, cbLog, outcome,
              served, successes, calcSteps>>
apiVars == <<ret, destroyed>>
vars == <<smVars, calcVars, apiVars>>

\* F(x), with x evaluated once
With(x, F(_)) == CHOOSE r \in {F(v) : v \in {x}} : TRUE

(***************************************************************************)
(* Bounds of the model.                                                    *)
(***************************************************************************)
MaxSteps == 3          \* steps of the state container in one run (calls on
                       \* it, resumed saves, clock ticks)
MaxCalcSteps == 3      \* operations of the calculation engine in one run

(***************************************************************************)
(* JavaScript values.  Every value is a record                             *)
(*   t : its type tag   p : string payload   n : number payload (x1000)    *)
(*   f : its own enumerable properties (key -> value)                      *)
(* so that values of different types can be compared.                      *)
(***************************************************************************)
NoFields == [k \in {} |-> 0]
Undefined == [t |-> "undefined", p |-> "", n |-> 0, f |-> NoFields]
Null == [t |-> "null", p |-> "", n |-> 0, f |-> NoFields]
Bool(b) == [t |-> "boolean", p |-> IF b THEN "true" ELSE "false", n |-> 0, f |-> NoFields]
Str(s) == [t |-> "string", p |-> s, n |-> 0, f |-> NoFields]
\* a finite number; n is the number in thousandths
Num(k) == [t |-> "number", p |-> "finite", n |-> k, f |-> NoFields]
NaN == [t |-> "number", p |-> "NaN", n |-> 0, f |-> NoFields]
Infinity == [t |-> "number", p |-> "Infinity", n |-> 0, f |-> NoFields]
Obj(fields) == [t |-> "object", p |-> "", n |-> 0, f |-> fields]
\* new Date(k)
DateVal(k) == [t |-> "date", p |-> "", n |-> k, f |-> NoFields]
\* the property names of array elements 0, 1, 2, ...
IndexKey ==
  <<"0", "1", "2", "3", "4", "5", "6", "7", "8", "9", "10", "11", "12",
    "13", "14", "15", "16", "17", "18", "19", "20", "21", "22", "23", "24", "25",
    "26", "27", "28", "29", "30", "31", "32", "33", "34", "35", "36", "37", "38",
    "39", "40", "41", "42", "43", "44", "45", "46", "47", "48", "49", "50", "51" >>
Arr(seq) == [t |-> "array", p |-> "", n |-> 0,
             f |-> [k \in {IndexKey[i] : i \in 1..Len(seq)} |->
                      seq[CHOOSE i \in 1..Len(seq) : IndexKey[i] = k]]]
EmptyObj == Obj(NoFields)
EmptyArr == Arr(<<>>)

\* the characters of the strings the model uses (for "abc"[i] and Object.keys)
StrChars(s) ==
  CASE s = "light" -> <<"l", "i", "g", "h", "t">>
    [] s = "dark" -> <<"d", "a", "r", "k">>
    [] s = "id" -> <<"i", "d">>
    [] s = "" -> <<>>
    [] OTHER -> <<s>>   \* other strings never meet an object in deepEqual

\* ToBoolean(v)
Truthy(v) ==
  CASE v.t \in {"undefined", "null"} -> FALSE
    [] v.t = "boolean" -> v.p = "true"
    [] v.t = "string" -> v.p # ""
    [] v.t = "number" -> ~(v.p = "NaN" \/ (v.p = "finite" /\ v.n = 0))
    [] OTHER -> TRUE

\* typeof v === 'object'
TypeofObject(v) == v.t \in {"object", "array", "date", "null"}

\* Object.keys(v)
ObjectKeys(v) ==
  CASE v.t \in {"object", "array", "date"} -> DOMAIN v.f
    [] v.t = "string" -> {IndexKey[i] : i \in 1..Len(StrChars(v.p))}
    [] OTHER -> {}

\* v[k]  (v is not null or undefined)
GetProp(v, k) ==
  CASE v.t \in {"object", "array", "date"} ->
         IF k \in DOMAIN v.f THEN v.f[k] ELSE Undefined
    [] v.t = "string" ->
         IF \E i \in 1..Len(StrChars(v.p)) : IndexKey[i] = k
         THEN Str(StrChars(v.p)[CHOOSE i \in 1..Len(StrChars(v.p)) : IndexKey[i] = k])
         ELSE Undefined
    [] OTHER -> Undefined

\* v[k] = x  on an object
PutProp(v, k, x) == [v EXCEPT !.f = [j \in (DOMAIN v.f) \cup {k} |->
                                       IF j = k THEN x ELSE v.f[j]]]

\* a === b.  Objects written by a caller are fresh objects, never the object
\* the tree already holds, so two objects are never identical.
StrictEq(a, b) ==
  /\ a.t = b.t
  /\ a.t \in {"undefined", "null", "boolean", "string", "number"}
  /\ a.p = b.p
  /\ a.n = b.n
  /\ ~(a.t = "number" /\ a.p = "NaN")


(***************************************************************************)
(* StateManager: equality and path access                                  *)
(***************************************************************************)
\* the mutant of deepEqual: identity (===) in place of structural equality
deepEqualIdentity(a, b) == StrictEq(a, b)

RECURSIVE deepEqual(_, _)
deepEqual(a, b) ==
  IF StrictEq(a, b) THEN TRUE
  ELSE IF a.t = "date" /\ b.t = "date" THEN a.n = b.n
  ELSE IF ~Truthy(a) \/ ~Truthy(b) \/ (~TypeofObject(a) /\ ~TypeofObject(b))
       THEN StrictEq(a, b)
  \* a.prototype and b.prototype are both undefined for every value here
  ELSE IF Cardinality(ObjectKeys(a)) # Cardinality(ObjectKeys(b)) THEN FALSE
  ELSE \A k \in ObjectKeys(a) : deepEqual(GetProp(a, k), GetProp(b, k))

\* path.split('.') for the paths the model uses
SplitPath(path) ==
  CASE path = "ui.theme" -> <<"ui", "theme">>
    [] path = "ui.language" -> <<"ui", "language">>
    [] path = "ui.showTooltips" -> <<"ui", "showTooltips">>
    [] path = "ui.showAnimations" -> <<"ui", "showAnimations">>
    [] path = "settings.autoSave" -> <<"settings", "autoSave">>
    [] path = "settings.autoCalculate" -> <<"settings", "autoCalculate">>
    [] path = "settings.notifications" -> <<"settings", "notifications">>
    [] path = "form.errors" -> <<"form", "errors">>
    [] path = "history.calculations" -> <<"history", "calculations">>
    [] path = "history.maxItems" -> <<"history", "maxItems">>
    [] path = "ui.isCalculating" -> <<"ui", "isCalculating">>
    [] path = "ui.hasResults" -> <<"ui", "hasResults">>
    [] path = "calculation.current" -> <<"calculation", "current">>
    [] path = "calculation.isCalculating" -> <<"calculation", "isCalculating">>
    [] path = "calculation.lastCalculated" -> <<"calculation", "lastCalculated">>
    [] path = "calculation.error" -> <<"calculation", "error">>
    [] path = "form.directMaterials" -> <<"form", "directMaterials">>
    [] path = "form.directLabor" -> <<"form", "directLabor">>
    [] path = "form.manufacturingOverhead" -> <<"form", "manufacturingOverhead">>
    [] path = "form.otherCosts" -> <<"form", "otherCosts">>
    [] path = "form.totalUnits" -> <<"form", "totalUnits">>
    [] path = "form.isDirty" -> <<"form", "isDirty">>
    [] path = "app.lastSaved" -> <<"app", "lastSaved">>
    [] path = "app.hasUnsavedChanges" -> <<"app", "hasUnsavedChanges">>
    [] OTHER -> <<path>>

RECURSIVE reduceGet(_, _)
reduceGet(current, keys) ==
  IF keys = <<>> THEN current
  ELSE reduceGet(IF Truthy(current) /\ GetProp(current, Head(keys)) # Undefined
                 THEN GetProp(current, Head(keys)) ELSE Undefined,
                 Tail(keys))

getValueAtPath(obj, path) == reduceGet(obj, SplitPath(path))

RECURSIVE reduceSet(_, _, _)
reduceSet(current, keys, value) ==
  IF Len(keys) = 1 THEN PutProp(current, keys[1], value)
  ELSE LET child == GetProp(current, Head(keys))
           target == IF ~Truthy(child) \/ ~TypeofObject(child) THEN EmptyObj ELSE child
       IN PutProp(current, Head(keys), reduceSet(target, Tail(keys), value))

setValueAtPath(obj, path, value) == reduceSet(obj, SplitPath(path), value)

\* new Date().toISOString() at instant k
IsoString(k) == Str(<<"T0", "T1", "T2", "T3", "T4", "T5", "T6">>[k + 1])

getDefaultState ==
  Obj([ui |-> Obj([theme |-> Str("light"), language |-> Str("id"),
                   sidebarOpen |-> Bool(FALSE), activeSection |-> Str("calculator"),
                   showTooltips |-> Bool(TRUE), showAnimations |-> Bool(TRUE),
                   isCalculating |-> Bool(FALSE), hasResults |-> Bool(FALSE)]),
       form |-> Obj([directMaterials |-> Num(0), directLabor |-> Num(0),
                     manufacturingOverhead |-> Num(0), otherCosts |-> Num(0),
                     totalUnits |-> Num(1000), isValid |-> Bool(FALSE),
                     isDirty |-> Bool(FALSE), errors |-> EmptyObj, touched |-> EmptyObj]),
       calculation |-> Obj([current |-> Null, isCalculating |-> Bool(FALSE),
                            lastCalculated |-> Null, error |-> Null]),
       history |-> Obj([calculations |-> EmptyArr, maxItems |-> Num(50000),
                        currentIndex |-> Num(-1000)]),
       settings |-> Obj([autoSave |-> Bool(TRUE), autoCalculate |-> Bool(TRUE),
                         showCurrency |-> Bool(TRUE), decimalPlaces |-> Num(2000),
                         exportFormat |-> Str("pdf"), notifications |-> Bool(TRUE)]),
       app |-> Obj([version |-> Str("1.0.0"), initialized |-> Bool(FALSE),
                    lastSaved |-> Null, hasUnsavedChanges |-> Bool(FALSE)])])

\* this.maxHistoryLength
maxHistoryLength == 50

StateChangeEvent(path, oldValue, newValue, source) ==
  Obj([path |-> Str(path), oldValue |-> oldValue, newValue |-> newValue,
       source |-> Str(source), timestamp |-> IsoString(now)])

\* StateManager.addToHistory, on the change log h
addToHistory(h, changeEvent) ==
  LET h1 == <<changeEvent>> \o h
  IN IF Len(h1) > maxHistoryLength THEN SubSeq(h1, 1, maxHistoryLength) ELSE h1

(***************************************************************************)
(* Storage (BaseStorage, PreferencesStorage)                               *)
(***************************************************************************)
NoItem == [t |-> "absent", p |-> "", n |-> 0, f |-> NoFields]

\* JSON.parse(JSON.stringify(v)): properties holding undefined are dropped,
\* a Date becomes its ISO string, NaN and Infinity become null
RECURSIVE JsonRoundTrip(_)
JsonRoundTrip(v) ==
  CASE v.t = "object" ->
         Obj([k \in {j \in DOMAIN v.f : v.f[j].t # "undefined"} |-> JsonRoundTrip(v.f[k])])
    [] v.t = "array" ->
         [v EXCEPT !.f = [k \in DOMAIN v.f |->
                            IF v.f[k].t = "undefined" THEN Null ELSE JsonRoundTrip(v.f[k])]]
    [] v.t = "date" -> IsoString(v.n)
    [] v.t = "number" /\ v.p # "finite" -> Null
    [] OTHER -> v

\* { ...a, ...b } for objects a and b
Spread(a, b) ==
  Obj([k \in (DOMAIN a.f) \cup (DOMAIN b.f) |->
         IF k \in DOMAIN b.f THEN b.f[k] ELSE a.f[k]])

\* the default object of PreferencesStorage.getPreferences
DefaultPreferences ==
  Obj([theme |-> Str("light"), language |-> Str("id"), currency |-> Str("IDR"),
       autoSave |-> Bool(TRUE), showTooltips |-> Bool(TRUE),
       showAnimations |-> Bool(TRUE)])

\* BaseStorage.getItem: <<success, data>>
getItem(item, defaultValue) ==
  IF ~isAvailable THEN <<FALSE, defaultValue>>
  ELSE IF item = NoItem THEN <<TRUE, defaultValue>>
  ELSE <<TRUE, item>>

\* BaseStorage.setItem: the item after the call
setItem(item, value) == IF ~isAvailable THEN item ELSE JsonRoundTrip(value)

getPreferences(st) == getItem(st.prefs, DefaultPreferences)

\* PreferencesStorage.savePreferences: the storage after the call
savePreferences(st, preferences) ==
  LET currentResult == getPreferences(st)
      currentPrefs == IF currentResult[1] THEN currentResult[2] ELSE EmptyObj
  IN [st EXCEPT !.prefs = setItem(st.prefs, Spread(currentPrefs, preferences))]

getAllCalculations(st) == getItem(st.calcs, EmptyArr)


(***************************************************************************)
(* StateManager operations.  An operation runs on a context M: the fields  *)
(* of the container it can change (state, history, isLoading, storage,     *)
(* microtasks) and what it did (emits, calls, saveCalls).                  *)
(***************************************************************************)
Context ==
  [state |-> state, history |-> history, isLoading |-> isLoading,
   storage |-> storage, microtasks |-> microtasks,
   emits |-> <<>>, calls |-> <<>>, saveCalls |-> 0]

\* the keys under which subscriptions are registered and events are emitted
SubsOf(key) == IF key \in DOMAIN subscribers THEN subscribers[key] ELSE <<>>

\* StateManager.emit: the callbacks registered under the event's own name are
\* called with (data), then the wildcard ones with (eventPath, data); `seen`
\* is the state tree a callback can read while it runs.  The DOM event
\* dispatched last goes to the presentation layer.
emit(M, eventPath, data) ==
  LET own == [i \in 1..Len(SubsOf(eventPath)) |->
                [id |-> SubsOf(eventPath)[i].id, key |-> eventPath,
                 args |-> <<data>>, seen |-> M.state]]
      wild == [i \in 1..Len(SubsOf("*")) |->
                [id |-> SubsOf("*")[i].id, key |-> "*",
                 args |-> <<Str(eventPath), data>>, seen |-> M.state]]
  IN [M EXCEPT !.calls = @ \o own \o wild,
               !.emits = Append(@, [event |-> eventPath, data |-> data])]

\* this.state.settings.autoSave, as a condition
autoSaveEnabled(M) == Truthy(GetProp(GetProp(M.state, "settings"), "autoSave"))

\* the mutant of saveCondition: the loading flag is not consulted
saveConditionNoLoading(M) == autoSaveEnabled(M)

\* `this.state.settings.autoSave && !this.isLoading`
saveCondition(M) == autoSaveEnabled(M) /\ ~M.isLoading

\* the preferences object saveToStorage builds from the tree
preferencesOf(tree) ==
  Obj([theme |-> getValueAtPath(tree, "ui.theme"),
       language |-> getValueAtPath(tree, "ui.language"),
       showTooltips |-> getValueAtPath(tree, "ui.showTooltips"),
       showAnimations |-> getValueAtPath(tree, "ui.showAnimations"),
       autoSave |-> getValueAtPath(tree, "settings.autoSave"),
       autoCalculate |-> getValueAtPath(tree, "settings.autoCalculate"),
       notifications |-> getValueAtPath(tree, "settings.notifications")])

\* StateManager.saveToStorage up to its `await`: the preferences are written
\* and the rest of the function is suspended
saveToStorage(M) ==
  [M EXCEPT !.saveCalls = @ + 1,
            !.storage = savePreferences(M.storage, preferencesOf(M.state)),
            !.microtasks = Append(@, "save")]

RECURSIVE setState(_, _, _, _)
setState(M, path, value, source) ==
  With(getValueAtPath(M.state, path), LAMBDA oldValue :
    IF deepEqual(oldValue, value) THEN M
    ELSE
      With(StateChangeEvent(path, oldValue, value, source), LAMBDA changeEvent :
      With([M EXCEPT !.state = setValueAtPath(M.state, path, value),
                     !.history = addToHistory(M.history, changeEvent)], LAMBDA M1 :
      With(setState(M1, "app.hasUnsavedChanges", Bool(TRUE), "system"), LAMBDA M2 :
      With(emit(M2, "state:changed", changeEvent), LAMBDA M3 :
      With(emit(M3, "state:changed:" \o path, changeEvent), LAMBDA M4 :
        IF saveCondition(M4) THEN saveToStorage(M4) ELSE M4))))))

\* the first loop of updateState over Object.entries(updates): the context
\* after the writes and the list of changes
RECURSIVE applyUpdates(_, _, _, _)
applyUpdates(M, changes, updates, source) ==
  IF updates = <<>> THEN <<M, changes>>
  ELSE With(getValueAtPath(M.state, Head(updates)[1]), LAMBDA oldValue :
         IF ~deepEqual(oldValue, Head(updates)[2])
         THEN With([M EXCEPT !.state = setValueAtPath(M.state, Head(updates)[1],
                                                      Head(updates)[2])], LAMBDA M1 :
              With(Append(changes, StateChangeEvent(Head(updates)[1], oldValue,
                                                    Head(updates)[2], source)), LAMBDA ch :
                applyUpdates(M1, ch, Tail(updates), source)))
         ELSE applyUpdates(M, changes, Tail(updates), source))

RECURSIVE logChanges(_, _)
logChanges(h, changes) ==
  IF changes = <<>> THEN h
  ELSE With(addToHistory(h, Head(changes)), LAMBDA h1 : logChanges(h1, Tail(changes)))

RECURSIVE emitChanges(_, _)
emitChanges(M, changes) ==
  IF changes = <<>> THEN M
  ELSE With(emit(M, "state:changed", Head(changes)), LAMBDA M1 :
       With(emit(M1, "state:changed:" \o Head(changes).f["path"].p, Head(changes)),
            LAMBDA M2 : emitChanges(M2, Tail(changes))))

updateState(M, updates, source) ==
  With(applyUpdates(M, <<>>, updates, source), LAMBDA applied :
    IF Len(applied[2]) = 0 THEN M
    ELSE
      With([applied[1] EXCEPT !.history = logChanges(M.history, applied[2])], LAMBDA M1 :
      With(setState(M1, "app.hasUnsavedChanges", Bool(TRUE), "system"), LAMBDA M2 :
      With(emit(M2, "state:batch-changed", Arr(applied[2])), LAMBDA M3 :
      With(emitChanges(M3, applied[2]), LAMBDA M4 :
        IF saveCondition(M4) THEN saveToStorage(M4) ELSE M4)))))

\* a || b
OrElse(a, b) == IF Truthy(a) THEN a ELSE b
\* a !== false
NotFalse(a) == Bool(~StrictEq(a, Bool(FALSE)))

\* the updates loadFromStorage makes from the stored preferences `data`
preferenceUpdates(data) ==
  << <<"ui.theme", OrElse(GetProp(data, "theme"), Str("light"))>>,
     <<"ui.language", OrElse(GetProp(data, "language"), Str("id"))>>,
     <<"ui.showTooltips", NotFalse(GetProp(data, "showTooltips"))>>,
     <<"ui.showAnimations", NotFalse(GetProp(data, "showAnimations"))>>,
     <<"settings.autoSave", NotFalse(GetProp(data, "autoSave"))>>,
     <<"settings.autoCalculate", NotFalse(GetProp(data, "autoCalculate"))>>,
     <<"settings.notifications", NotFalse(GetProp(data, "notifications"))>> >>

\* StateManager.loadFromStorage (it never suspends)
loadFromStorage(M) ==
  With(getPreferences(M.storage), LAMBDA prefsResult :
  With(IF prefsResult[1]
       THEN updateState(M, preferenceUpdates(prefsResult[2]), "storage")
       ELSE M, LAMBDA M1 :
  With(getAllCalculations(M1.storage), LAMBDA historyResult :
  With(IF historyResult[1]
       THEN setState(M1, "history.calculations", historyResult[2], "storage")
       ELSE M1, LAMBDA M2 :
  With(setState(M2, "app.lastSaved", IsoString(now), "system"), LAMBDA M3 :
    setState(M3, "app.hasUnsavedChanges", Bool(FALSE), "system"))))))

\* StateManager.init up to `await this.loadFromStorage()`
initStart(M) ==
  With([M EXCEPT !.isLoading = TRUE], LAMBDA M0 :
  With(loadFromStorage(M0), LAMBDA M1 :
    [M1 EXCEPT !.microtasks = Append(@, "init")]))

\* the rest of saveToStorage, after `await savePreferences(...)`
saveToStorageResume(M) ==
  With(setState(M, "app.lastSaved", IsoString(now), "system"), LAMBDA M1 :
  With(setState(M1, "app.hasUnsavedChanges", Bool(FALSE), "system"), LAMBDA M2 :
    emit(M2, "state:saved", M2.state)))

(***************************************************************************)
(* The state container as a state machine.  JavaScript runs one task to    *)
(* its end (any number of calls on the container), then the whole          *)
(* microtask queue in order, then the next task.                           *)
(***************************************************************************)
\* what the stores hold when the page is opened
InitialStorages ==
  { [prefs |-> NoItem, calcs |-> NoItem],
    [prefs |-> Obj([theme |-> Str("dark"), language |-> Str("id"),
                    currency |-> Str("IDR"), autoSave |-> Bool(FALSE),
                    showTooltips |-> Bool(TRUE), showAnimations |-> Bool(TRUE)]),
     calcs |-> NoItem] }

\* the keys subscriptions are registered under
SubKeys == {"ui.theme", "state:changed:ui.theme", "*"}

\* init() is called by the constructor and once more by the application
InitCalls == 2

\* the arguments of setState and updateState
SetStateInputs ==
  { <<"ui.theme", Str("dark")>>, <<"ui.theme", Str("light")>>,
    <<"settings.autoSave", Bool(FALSE)>>, <<"settings.autoSave", Bool(TRUE)>>,
    <<"app.hasUnsavedChanges", Bool(FALSE)>>, <<"app.hasUnsavedChanges", Bool(TRUE)>>,
    <<"form.errors", EmptyObj>>, <<"form.errors", EmptyArr>>,
    <<"form.errors", Obj([totalUnits |-> Str("required")])>> }
UpdateStateInputs ==
  { << <<"ui.theme", Str("dark")>>, <<"form.errors", EmptyObj>> >>,
    << <<"ui.theme", Str("light")>>, <<"settings.autoSave", Bool(TRUE)>> >>,
    << <<"settings.autoSave", Bool(FALSE)>>, <<"ui.theme", Str("dark")>> >>,
    << <<"app.hasUnsavedChanges", Bool(FALSE)>>, <<"ui.theme", Str("dark")>> >> }

\* no direct call of the validation or storage interface has been made yet
NoReturn == [op |-> "none", field |-> "", data |-> Undefined, result |-> <<>>]

\* nothing has been asked of the calculation engine yet
NoOutcome == [op |-> "none", input |-> Undefined, kind |-> "none", id |-> 0, error |-> ""]

NoOp == [op |-> "none", path |-> "", value |-> Undefined, updates |-> <<>>]

\* the container's variables after an operation that ended in context M
Commit(M) ==
  /\ state' = M.state
  /\ history' = M.history
  /\ isLoading' = M.isLoading
  /\ storage' = M.storage
  /\ microtasks' = M.microtasks
  /\ emits' = M.emits
  /\ calls' = M.calls
  /\ saveCalls' = M.saveCalls

\* the state after `new StateManager()`: the constructor has called init(),
\* which ran up to its await
Init ==
  /\ now = 0
  /\ isAvailable \in BOOLEAN
  /\ subscribers = [k \in SubKeys |-> <<>>]
  /\ \E st \in InitialStorages :
     \E M \in {initStart([state |-> getDefaultState, history |-> <<>>,
                          isLoading |-> FALSE, storage |-> st, microtasks |-> <<>>,
                          emits |-> <<>>, calls |-> <<>>, saveCalls |-> 0])} :
          /\ state = M.state
          /\ history = M.history
          /\ isLoading = M.isLoading
          /\ storage = M.storage
          /\ microtasks = M.microtasks
          /\ emits = M.emits
          /\ calls = M.calls
          /\ saveCalls = M.saveCalls
  /\ draining = FALSE
  /\ inits = 1
  /\ timers = 0
  /\ nextSubId = 0
  /\ steps = 0
  /\ last = [NoOp EXCEPT !.op = "init"]
  /\ options = [precision |-> 2, validateInput |-> TRUE, enableCaching |-> TRUE]
  /\ cache = <<>>
  /\ results = <<>>
  /\ calculationHistory = <<>>
  /\ cbLog = <<>>
  /\ outcome = NoOutcome
  /\ served = <<>>
  /\ successes = <<>>
  /\ calcSteps = 0
  /\ ret = NoReturn
  /\ destroyed = FALSE

\* a task calls setState(path, value)
SetState(path, value) ==
  /\ ~draining
  /\ steps < MaxSteps
  /\ \E M \in {setState(Context, path, value, "manual")} : Commit(M)
  /\ last' = [NoOp EXCEPT !.op = "setState", !.path = path, !.value = value]
  /\ steps' = steps + 1
  /\ UNCHANGED <<subscribers, draining, inits, timers, isAvailable, now, nextSubId>>
  /\ UNCHANGED <<calcVars, apiVars>>

\* a task calls updateState(updates)
UpdateState(updates) ==
  /\ ~draining
  /\ steps < MaxSteps
  /\ \E M \in {updateState(Context, updates, "manual")} : Commit(M)
  /\ last' = [NoOp EXCEPT !.op = "updateState", !.updates = updates]
  /\ steps' = steps + 1
  /\ UNCHANGED <<subscribers, draining, inits, timers, isAvailable, now, nextSubId>>
  /\ UNCHANGED <<calcVars, apiVars>>

\* a task calls subscribe(key, callback, {immediate}); the subscription's id
\* stands for its callback as well
Subscribe(key, immediate) ==
  /\ ~draining
  /\ steps < MaxSteps
  /\ subscribers' = [subscribers EXCEPT ![key] = Append(@, [id |-> nextSubId + 1])]
  /\ nextSubId' = nextSubId + 1
  /\ calls' = IF immediate
              THEN << [id |-> nextSubId + 1, key |-> key,
                       args |-> <<getValueAtPath(state, key), Null,
                                  Obj([path |-> Str(key), source |-> Str("immediate")])>>,
                       seen |-> state] >>
              ELSE <<>>
  /\ emits' = <<>>
  /\ saveCalls' = 0
  /\ last' = [NoOp EXCEPT !.op = "subscribe", !.path = key]
  /\ steps' = steps + 1
  /\ UNCHANGED <<state, history, isLoading, microtasks, draining, inits, timers,
                 storage, isAvailable, now>>
  /\ UNCHANGED <<calcVars, apiVars>>

\* a task calls the function subscribe returned for subscription id under key
Unsubscribe(key, id) ==
  /\ ~draining
  /\ steps < MaxSteps
  /\ \E i \in 1..Len(subscribers[key]) : subscribers[key][i].id = id
  /\ subscribers' = [subscribers EXCEPT ![key] = SelectSeq(@, LAMBDA sub : sub.id # id)]
  /\ emits' = <<>>
  /\ calls' = <<>>
  /\ saveCalls' = 0
  /\ last' = [NoOp EXCEPT !.op = "unsubscribe", !.path = key]
  /\ steps' = steps + 1
  /\ UNCHANGED <<state, history, isLoading, microtasks, draining, inits, timers,
                 storage, isAvailable, now, nextSubId>>
  /\ UNCHANGED <<calcVars, apiVars>>

\* the application calls init() again (app.js)
InitCall ==
  /\ ~draining
  /\ steps < MaxSteps
  /\ inits < InitCalls
  /\ \E M \in {initStart(Context)} : Commit(M)
  /\ inits' = inits + 1
  /\ last' = [NoOp EXCEPT !.op = "init"]
  /\ steps' = steps + 1
  /\ UNCHANGED <<subscribers, draining, timers, isAvailable, now, nextSubId>>
  /\ UNCHANGED <<calcVars, apiVars>>

\* the microtask at the head of the queue is an init(): the rest of init
InitResume ==
  /\ microtasks # <<>>
  /\ Head(microtasks) = "init"
  /\ \E M \in {emit([Context EXCEPT !.isLoading = FALSE,
                                       !.microtasks = Tail(microtasks)],
                       "state:initialized", state)} :
       /\ Commit(M)
       /\ draining' = (M.microtasks # <<>>)
  /\ timers' = timers + 1
  /\ last' = [NoOp EXCEPT !.op = "initResume"]
  /\ UNCHANGED <<subscribers, inits, isAvailable, now, nextSubId, steps>>
  /\ UNCHANGED <<calcVars, apiVars>>

\* the microtask at the head of the queue is a saveToStorage(): its rest
SaveResume ==
  /\ microtasks # <<>>
  /\ Head(microtasks) = "save"
  /\ steps < MaxSteps
  /\ \E M \in {saveToStorageResume([Context EXCEPT !.microtasks = Tail(microtasks)])} :
       /\ Commit(M)
       /\ draining' = (M.microtasks # <<>>)
  /\ last' = [NoOp EXCEPT !.op = "saveResume"]
  /\ steps' = steps + 1
  /\ UNCHANGED <<subscribers, inits, timers, isAvailable, now, nextSubId>>
  /\ UNCHANGED <<calcVars, apiVars>>

\* time passes
Tick ==
  /\ steps < MaxSteps
  /\ now' = now + 1
  /\ emits' = <<>>
  /\ calls' = <<>>
  /\ saveCalls' = 0
  /\ last' = [NoOp EXCEPT !.op = "tick"]
  /\ steps' = steps + 1
  /\ UNCHANGED <<state, history, subscribers, isLoading, microtasks, draining, inits,
                 timers, storage, isAvailable, nextSubId>>
  /\ UNCHANGED <<calcVars, apiVars>>

Next ==
  \/ \E in \in SetStateInputs : SetState(in[1], in[2])
  \/ \E updates \in UpdateStateInputs : UpdateState(updates)
  \/ \E key \in SubKeys, immediate \in BOOLEAN : Subscribe(key, immediate)
  \/ \E key \in SubKeys, id \in 1..MaxSteps : Unsubscribe(key, id)
  \/ InitCall
  \/ InitResume
  \/ SaveResume
  \/ Tick

Spec == Init /\ [][Next]_vars


(***************************************************************************)
(* Properties of the state container                                       *)
(***************************************************************************)
\* the step just taken is a call of setState / of updateState
SetStateStep == last'.op = "setState" /\ steps' = steps + 1
UpdateStateStep == last'.op = "updateState" /\ steps' = steps + 1

\* the number of events named `name` among the emitted events es
CountEvents(es, name) == Cardinality({i \in 1..Len(es) : es[i].event = name})

\* the records of the change log h for path
RecordsFor(h, path) == {i \in 1..Len(h) : h[i].f["path"].p = path}

\* C1: a setState(P, V) whose V is equal, structure for structure, to the
\* value stored at P leaves the state tree and the change log as they were,
\* calls no subscriber, emits nothing and starts no save.
C1_NoOpWrite ==
  [][(SetStateStep /\ getValueAtPath(state, last'.path) = last'.value)
       => /\ state' = state
          /\ history' = history
          /\ calls' = <<>>
          /\ emits' = <<>>
          /\ saveCalls' = 0
          /\ microtasks' = microtasks
          /\ storage' = storage]_vars

\* a setState of an object equal to the stored object has been a no-op, with
\* a wildcard subscriber registered
C1_Witness ==
  /\ last.op = "setState"
  /\ last.path = "form.errors"
  /\ last.value = Obj([totalUnits |-> Str("required")])
  /\ getValueAtPath(state, "form.errors") = last.value
  /\ emits = <<>>
  /\ Len(subscribers["*"]) > 0

\* C2: once a callback is registered with subscribe('ui.theme', cb), every
\* committed change of ui.theme made by setState or updateState invokes it
\* with the new value.
C2_PathSubscriberNotified ==
  (/\ last.op \in {"setState", "updateState"}
   /\ CountEvents(emits, "state:changed:ui.theme") > 0)
    => \A i \in 1..Len(subscribers["ui.theme"]) :
         \E j \in 1..Len(calls) :
           /\ calls[j].id = subscribers["ui.theme"][i].id
           /\ calls[j].args = <<getValueAtPath(state, "ui.theme")>>

\* C3: right after setState(P, V) has returned, the value at P is deep-equal
\* to V (by the container's own deepEqual).
C3_WriteThenRead ==
  last.op = "setState" => deepEqual(getValueAtPath(state, last.path), last.value)

\* C4: a setState or updateState that changed the state has called
\* saveToStorage exactly when settings.autoSave holds (as the call finds it
\* once the write is applied) and the loading flag is clear; a write or a
\* load made while the loading flag is set starts no save.
C4_SaveTrigger ==
  /\ (last.op \in {"setState", "updateState"} /\ emits # <<>>)
       => ((saveCalls > 0) <=>
             (Truthy(getValueAtPath(state, "settings.autoSave")) /\ ~isLoading))
  /\ (last.op \in {"setState", "updateState", "init"} /\ isLoading) => saveCalls = 0

\* a state-changing write made while the container is loading, auto-save on
C4_Witness ==
  /\ last.op \in {"setState", "updateState"}
  /\ emits # <<>>
  /\ isLoading
  /\ Truthy(getValueAtPath(state, "settings.autoSave"))
  /\ saveCalls = 0

\* C5: updateState(updates) emits one 'state:batch-changed' event and, for
\* each path of updates, one 'state:changed:<path>' event if the new value is
\* not deep-equal to the old one and none (and no change-log record) if it
\* is; when no path changes, nothing is emitted and no save is started.
C5_BatchEvents ==
  [][UpdateStateStep =>
       LET ups == last'.updates
           changed(i) == ~deepEqual(getValueAtPath(state, ups[i][1]), ups[i][2])
           anyChanged == \E i \in 1..Len(ups) : changed(i)
       IN /\ CountEvents(emits', "state:batch-changed") = IF anyChanged THEN 1 ELSE 0
          /\ \A i \in 1..Len(ups) :
               /\ CountEvents(emits', "state:changed:" \o ups[i][1])
                    = IF changed(i) THEN 1 ELSE 0
               /\ ~changed(i) =>
                    Cardinality(RecordsFor(history', ups[i][1]))
                      = Cardinality(RecordsFor(history, ups[i][1]))
          /\ ~anyChanged => (emits' = <<>> /\ saveCalls' = 0)]_vars

\* C6: whenever a subscriber callback runs during updateState(updates), every
\* path of updates already holds its new value.
C6_BatchAtomicity ==
  last.op = "updateState" =>
    \A j \in 1..Len(calls) : \A i \in 1..Len(last.updates) :
      deepEqual(getValueAtPath(calls[j].seen, last.updates[i][1]), last.updates[i][2])


(***************************************************************************)
(* Numbers and strings of the calculation engine.  A number is held in     *)
(* thousandths, so the arithmetic below is exact decimal arithmetic;       *)
(* binary floating-point representation error is not modelled.  Cost       *)
(* fields hold numbers, null, undefined or '' (or are absent); totalUnits  *)
(* may also hold one of the strings of StringToNumber.                     *)
(***************************************************************************)
\* Number(s) for the strings of the model
StringToNumber(s) ==
  CASE s = "" -> Num(0)
    [] s = "0" -> Num(0)
    [] s = "3" -> Num(3000)
    [] OTHER -> NaN

\* ToNumber(v)
ToNumber(v) ==
  CASE v.t = "number" -> v
    [] v.t = "null" -> Num(0)
    [] v.t = "boolean" -> IF v.p = "true" THEN Num(1000) ELSE Num(0)
    [] v.t = "string" -> StringToNumber(v.p)
    [] OTHER -> NaN

\* parseFloat(v): the argument is converted to a string and its leading
\* number is read; '' , 'null' and 'undefined' have none
parseFloat(v) ==
  CASE v.t = "number" -> v
    [] v.t = "string" /\ v.p # "" -> StringToNumber(v.p)
    [] OTHER -> NaN

\* parseInt(v): as parseFloat, but the digits stop at the decimal point
parseInt(v) ==
  LET x == parseFloat(v)
  IN IF x.p # "finite" THEN NaN
     ELSE IF x.n >= 0 THEN Num((x.n \div 1000) * 1000)
     ELSE Num(-(((-x.n) \div 1000) * 1000))

isNaN(v) == ToNumber(v).p = "NaN"
isFinite(v) == ToNumber(v).p = "finite"

\* a < b on values (false when either side is NaN)
LessThan(a, b) ==
  LET x == ToNumber(a)
      y == ToNumber(b)
  IN x.p = "finite" /\ y.p = "finite" /\ x.n < y.n

\* a + b on numbers
JsAdd(a, b) == IF a.p = "finite" /\ b.p = "finite" THEN Num(a.n + b.n) ELSE NaN

\* Math.round(a / b) for integers a and b # 0: the nearest integer, a half
\* going up
RoundDiv(a, b) ==
  IF b > 0 THEN (2 * a + b) \div (2 * b) ELSE (2 * (-a) + (-b)) \div (2 * (-b))

\* one unit of the last kept decimal place, in thousandths
Unit(decimals) == CASE decimals = 0 -> 1000 [] decimals = 1 -> 100
                    [] decimals = 2 -> 10 [] OTHER -> 1

\* NumberHelper.round(num, decimals)
round(num, decimals) ==
  IF num.p # "finite" THEN num
  ELSE Num(RoundDiv(num.n, Unit(decimals)) * Unit(decimals))

\* NumberHelper.round(a / b, decimals) for numbers a and b
roundQuotient(a, b, decimals) ==
  IF a.p # "finite" \/ b.p # "finite" THEN NaN
  ELSE IF b.n = 0 THEN (IF a.n = 0 THEN NaN ELSE Infinity)
  ELSE Num(RoundDiv(a.n * (1000 \div Unit(decimals)), b.n) * Unit(decimals))

\* NumberHelper.percentage(value, total)
percentage(value, total) ==
  IF StrictEq(total, Num(0)) THEN Num(0)
  ELSE IF value.p # "finite" \/ total.p # "finite" THEN NaN
  ELSE Num(RoundDiv(value.n * 1000, total.n) * 100)

DigitStr == <<"0", "1", "2", "3", "4", "5", "6", "7", "8", "9">>

\* String(n) for a natural number n
RECURSIVE NatToString(_)
NatToString(n) ==
  IF n < 10 THEN DigitStr[n + 1] ELSE NatToString(n \div 10) \o DigitStr[(n % 10) + 1]

\* the decimals of String(x) for the fraction fr (in thousandths) of x
FractionToString(fr) ==
  IF fr = 0 THEN ""
  ELSE IF fr % 100 = 0 THEN "." \o DigitStr[(fr \div 100) + 1]
  ELSE IF fr % 10 = 0
       THEN "." \o DigitStr[(fr \div 100) + 1] \o DigitStr[((fr \div 10) % 10) + 1]
  ELSE "." \o DigitStr[(fr \div 100) + 1] \o DigitStr[((fr \div 10) % 10) + 1]
           \o DigitStr[(fr % 10) + 1]

\* String(v) for a number v, as JSON.stringify and toString write it
NumberToString(v) ==
  IF v.p # "finite" THEN "null"
  ELSE IF v.n < 0
       THEN "-" \o NatToString((-v.n) \div 1000) \o FractionToString((-v.n) % 1000)
  ELSE NatToString(v.n \div 1000) \o FractionToString(v.n % 1000)


(***************************************************************************)
(* Validation (utils/validation.js)                                        *)
(***************************************************************************)
\* VALIDATION (constants.js); maxValue is 999999999999, held in thousands
minValue == 0
maxValueThousands == 999999999
minUnits == 1
maxUnits == 999999999

\* ERROR_MESSAGES (constants.js), with formatMessage applied
ERROR_MESSAGES ==
  [required |-> "Field ini wajib diisi",
   invalidNumber |-> "Masukkan angka yang valid",
   minValue |-> "Nilai tidak boleh kurang dari " \o NatToString(minValue),
   maxValue |-> "Nilai tidak boleh lebih dari 999999999999",
   minUnits |-> "Jumlah unit minimal adalah 1",
   maxUnits |-> "Jumlah unit maksimal adalah " \o NatToString(maxUnits)]

\* new ValidationResult()
ValidationResult == [isValid |-> TRUE, errors |-> <<>>, warnings |-> <<>>]

addError(result, field, message) ==
  [result EXCEPT !.errors = Append(@, [field |-> field, message |-> message]),
                 !.isValid = FALSE]

addWarning(result, field, message) ==
  [result EXCEPT !.warnings = Append(@, [field |-> field, message |-> message])]

\* the merge of a field's result into result (validateField, validateAll)
mergeResult(result, fieldResult) ==
  [isValid |-> result.isValid /\ fieldResult.isValid,
   errors |-> result.errors \o fieldResult.errors,
   warnings |-> result.warnings \o fieldResult.warnings]

\* RequiredValidator.validate
RequiredValidator(value, field) ==
  IF value.t \in {"null", "undefined"} \/ StrictEq(value, Str(""))
  THEN addError(ValidationResult, field, ERROR_MESSAGES.required)
  ELSE ValidationResult

\* value.replace(/Rp\s*/g, '').replace(/\./g, '').replace(',', '.') for the
\* strings of the model, none of which holds 'Rp', a point or a comma
cleanCurrency(s) == CASE s = "" -> "" [] s = "0" -> "0" [] s = "3" -> "3" [] OTHER -> "?"

\* numValue > VALIDATION.maxValue
AboveMaxValue(numValue) ==
  LessThan(Num(0), numValue) /\ ToNumber(numValue).n \div 1000000 > maxValueThousands

\* CurrencyValidator.validate, with min 0 and max VALIDATION.maxValue
CurrencyValidator(value, field) ==
  LET numValue == IF value.t = "string" THEN parseFloat(Str(cleanCurrency(value.p)))
                  ELSE value
      r1 == IF LessThan(numValue, Num(minValue * 1000))
            THEN addError(ValidationResult, field, ERROR_MESSAGES.minValue)
            ELSE ValidationResult
  IN IF isNaN(numValue) \/ ~isFinite(numValue)
     THEN addError(ValidationResult, field, ERROR_MESSAGES.invalidNumber)
     ELSE IF AboveMaxValue(numValue)
          THEN addError(r1, field, ERROR_MESSAGES.maxValue)
          ELSE r1

\* the mutant of UnitsValidator: no lower limit
UnitsValidatorNoMinimum(value, field) ==
  LET numValue == IF value.t = "string" THEN parseInt(value) ELSE value
  IN IF isNaN(numValue) \/ ~isFinite(numValue)
     THEN addError(ValidationResult, field, ERROR_MESSAGES.invalidNumber)
     ELSE ValidationResult

\* UnitsValidator.validate, with min VALIDATION.minUnits and max maxUnits
UnitsValidator(value, field) ==
  LET numValue == IF value.t = "string" THEN parseInt(value) ELSE value
      r1 == IF LessThan(numValue, Num(minUnits * 1000))
            THEN addError(ValidationResult, field, ERROR_MESSAGES.minUnits)
            ELSE ValidationResult
  IN IF isNaN(numValue) \/ ~isFinite(numValue)
     THEN addError(ValidationResult, field, ERROR_MESSAGES.invalidNumber)
     ELSE IF ToNumber(numValue).n % 1000 # 0
          THEN addError(ValidationResult, field, "Jumlah unit harus berupa bilangan bulat")
     ELSE IF ToNumber(numValue).n \div 1000 > maxUnits
          THEN addError(r1, field, ERROR_MESSAGES.maxUnits)
          ELSE r1

\* the validators setupDefaultValidators registers for field, in order
setupDefaultValidators(field) ==
  CASE field \in {"directMaterials", "directLabor", "manufacturingOverhead"} ->
         <<"required", "currency">>
    [] field = "otherCosts" -> <<"currency">>
    [] field = "totalUnits" -> <<"required", "units">>
    [] OTHER -> <<>>

\* validator.validate(value, field)
validate(validator, value, field) ==
  CASE validator = "required" -> RequiredValidator(value, field)
    [] validator = "currency" -> CurrencyValidator(value, field)
    [] validator = "units" -> UnitsValidator(value, field)

\* ValidationManager.validateField
validateField(field, value) ==
  LET validators == setupDefaultValidators(field)
      run[i \in 0..Len(validators)] ==
        IF i = 0 THEN ValidationResult
        ELSE With(run[i - 1], LAMBDA result :
             With(validate(validators[i], value, field), LAMBDA fieldResult :
               mergeResult(result, fieldResult)))
  IN run[Len(validators)]

\* the order in which the objects of the model list their properties
FieldOrder == <<"directMaterials", "directLabor", "manufacturingOverhead",
                "otherCosts", "totalUnits">>

\* Object.entries(data), as the sequence of the keys
ObjectEntries(data) == SelectSeq(FieldOrder, LAMBDA k : k \in ObjectKeys(data))

\* ValidationManager.validateAll
validateAll(data) ==
  LET entries == ObjectEntries(data)
      run[i \in 0..Len(entries)] ==
        IF i = 0 THEN ValidationResult
        ELSE With(run[i - 1], LAMBDA result :
             With(validateField(entries[i], GetProp(data, entries[i])), LAMBDA fieldResult :
               mergeResult(result, fieldResult)))
  IN run[Len(entries)]

\* totalCosts / data.totalUnits > 10000000, for totalUnits > 0
VeryHighPerUnit(totalCosts, totalUnits) ==
  LET units == ToNumber(totalUnits).n
      q == totalCosts.n \div 10000000
  IN q > units \/ (q = units /\ totalCosts.n % 10000000 > 0)

\* ValidationManager.validateHPPData
validateHPPData(data) ==
  LET totalCosts == JsAdd(JsAdd(JsAdd(OrElse(GetProp(data, "directMaterials"), Num(0)),
                                      OrElse(GetProp(data, "directLabor"), Num(0))),
                                OrElse(GetProp(data, "manufacturingOverhead"), Num(0))),
                          OrElse(GetProp(data, "otherCosts"), Num(0)))
      totalUnits == GetProp(data, "totalUnits")
      zeroCosts(r) == IF StrictEq(totalCosts, Num(0))
                      THEN addError(r, "general", "Total biaya tidak boleh nol")
                      ELSE r
      zeroUnits(r) ==
        IF LessThan(Num(0), totalCosts) /\ StrictEq(OrElse(totalUnits, Num(0)), Num(0))
        THEN addError(r, "totalUnits", "Jumlah unit harus lebih dari 0 jika ada biaya")
        ELSE r
      veryHigh(r) ==
        IF /\ LessThan(Num(0), totalCosts)
           /\ LessThan(Num(0), totalUnits)
           /\ VeryHighPerUnit(totalCosts, totalUnits)
        THEN addWarning(r, "general", "HPP per unit sangat tinggi, pastikan data sudah benar")
        ELSE r
  IN With(validateAll(data), LAMBDA r0 :
       With(zeroCosts(r0), LAMBDA r1 :
         With(zeroUnits(r1), LAMBDA r2 : veryHigh(r2))))


(***************************************************************************)
(* The calculation engine (components/HPPCalculator.js).  A result object  *)
(* is known by its index in results, the objects constructed so far.       *)
(***************************************************************************)
\* the engine's state an operation works on
Engine ==
  [cache |-> cache, results |-> results, calculationHistory |-> calculationHistory,
   cbLog |-> <<>>, kind |-> "none", id |-> 0, error |-> ""]

\* triggerCallback(event, data): data is a result object (id) or an error
triggerCallback(E, event, id, error) ==
  [E EXCEPT !.cbLog = Append(@, [event |-> event, id |-> id, error |-> error])]

\* HPPCalculator.normalizeInputData
normalizeInputData(data) ==
  LET cost(k) == round(OrElse(parseFloat(GetProp(data, k)), Num(0)), options.precision)
  IN Obj([directMaterials |-> cost("directMaterials"),
          directLabor |-> cost("directLabor"),
          manufacturingOverhead |-> cost("manufacturingOverhead"),
          otherCosts |-> cost("otherCosts"),
          totalUnits |-> OrElse(parseInt(GetProp(data, "totalUnits")), Num(1000))])

\* HPPCalculator.generateCacheKey: JSON.stringify of a normalized input
generateCacheKey(data) ==
  "{\"directMaterials\":" \o NumberToString(GetProp(data, "directMaterials"))
    \o ",\"directLabor\":" \o NumberToString(GetProp(data, "directLabor"))
    \o ",\"manufacturingOverhead\":" \o NumberToString(GetProp(data, "manufacturingOverhead"))
    \o ",\"otherCosts\":" \o NumberToString(GetProp(data, "otherCosts"))
    \o ",\"totalUnits\":" \o NumberToString(GetProp(data, "totalUnits")) \o "}"

\* the mutant of cacheGet: a lookup that finds nothing
cacheGetMiss(c, key) == 0

\* this.cache.get(key): the result object's id, 0 for undefined
cacheGet(c, key) == IF key \in DOMAIN c THEN c[key] ELSE 0

\* this.cache.set(key, id)
cacheSet(c, key, id) == [k \in (DOMAIN c) \cup {key} |-> IF k = key THEN id ELSE c[k]]

\* HPPResult.calculateHPPPerUnit
calculateHPPPerUnit(totalCosts, totalUnits) ==
  IF ~LessThan(Num(0), totalUnits) /\ totalUnits.p # "NaN" THEN Num(0)
  ELSE roundQuotient(totalCosts, totalUnits, 2)

\* new HPPResult(data)
HPPResult(data) ==
  LET dm == OrElse(GetProp(data, "directMaterials"), Num(0))
      dl == OrElse(GetProp(data, "directLabor"), Num(0))
      mo == OrElse(GetProp(data, "manufacturingOverhead"), Num(0))
      oc == OrElse(GetProp(data, "otherCosts"), Num(0))
      tu == OrElse(GetProp(data, "totalUnits"), Num(1000))
      part(amount, totalCosts) ==
        [amount |-> amount, percentage |-> percentage(amount, totalCosts)]
  IN With(round(JsAdd(JsAdd(JsAdd(dm, dl), mo), oc), 2), LAMBDA totalCosts :
     [directMaterials |-> dm, directLabor |-> dl, manufacturingOverhead |-> mo,
      otherCosts |-> oc, totalUnits |-> tu,
      totalCosts |-> totalCosts,
      hppPerUnit |-> calculateHPPPerUnit(totalCosts, tu),
      totalHPP |-> totalCosts,
      breakdown |-> [directMaterials |-> part(dm, totalCosts),
                     directLabor |-> part(dl, totalCosts),
                     manufacturingOverhead |-> part(mo, totalCosts),
                     otherCosts |-> part(oc, totalCosts)],
      timestamp |-> IsoString(now),
      isValid |-> validateHPPData(Obj([directMaterials |-> dm, directLabor |-> dl,
                                       manufacturingOverhead |-> mo, otherCosts |-> oc,
                                       totalUnits |-> tu])).isValid])

\* HPPResult.toJSON: a copy of the result's fields
toJSON(result) == [k \in DOMAIN result |-> result[k]]

\* the engine's history holds at most this many entries
historyLimit == 100

\* HPPCalculator.addToHistory
addResultToHistory(h, result) ==
  LET longer == <<[id |-> NatToString(now), result |-> toJSON(result),
                   timestamp |-> result.timestamp]>> \o h
  IN IF Len(longer) > historyLimit THEN SubSeq(longer, 1, historyLimit) ELSE longer

\* errors.map(e => e.message).join(', ')
RECURSIVE joinMessages(_)
joinMessages(errors) ==
  IF errors = <<>> THEN ""
  ELSE IF Len(errors) = 1 THEN errors[1].message
  ELSE errors[1].message \o ", " \o joinMessages(Tail(errors))

\* the mutant of calculateError: the catch block swallows the error
calculateErrorSwallowed(E, message) ==
  [triggerCallback(E, "calculation-error", 0, message) EXCEPT !.kind = "returned"]

\* calculate's catch block: the callback, then the error is thrown again
calculateError(E, message) ==
  [triggerCallback(E, "calculation-error", 0, message)
     EXCEPT !.kind = "threw", !.error = message]

\* HPPCalculator.calculate
calculate(E, inputData) ==
  LET result == Len(E.results) + 1
      fresh(cacheKey, newResult) ==
        [triggerCallback(
           [E EXCEPT !.results = Append(@, newResult),
                     !.cache = IF options.enableCaching
                               THEN cacheSet(@, cacheKey, result) ELSE @,
                     !.calculationHistory = addResultToHistory(@, newResult)],
           "calculation-complete", result, "")
           EXCEPT !.kind = "returned", !.id = result]
      compute(normalizedData, cacheKey, cachedResult) ==
        IF options.enableCaching /\ cachedResult # 0
        THEN [triggerCallback(E, "cache-hit", cachedResult, "")
                EXCEPT !.kind = "returned", !.id = cachedResult]
        ELSE With(HPPResult(normalizedData), LAMBDA newResult : fresh(cacheKey, newResult))
      validated ==
        With(normalizeInputData(inputData), LAMBDA normalizedData :
          With(generateCacheKey(normalizedData), LAMBDA cacheKey :
            compute(normalizedData, cacheKey, cacheGet(E.cache, cacheKey))))
  IN IF options.validateInput
     THEN With(validateHPPData(inputData), LAMBDA validation :
            IF ~validation.isValid
            THEN calculateError(E, "Validation failed: " \o joinMessages(validation.errors))
            ELSE validated)
     ELSE validated

\* HPPCalculator.clearCache
clearCache(E) == triggerCallback([E EXCEPT !.cache = <<>>], "cache-cleared", 0, "")

(***************************************************************************)
(* The calculation engine as a state machine                               *)
(***************************************************************************)
Input(dm, dl, mo, oc, tu) ==
  Obj([directMaterials |-> dm, directLabor |-> dl, manufacturingOverhead |-> mo,
       otherCosts |-> oc, totalUnits |-> tu])

\* the inputs calculate is called with
CalcInputs ==
  { Input(Num(1000), Num(2000), Num(500), Num(0), Num(3000)),
    Input(Num(1004), Num(2000), Num(500), Num(0), Num(3000)),
    Input(Num(2500), Num(0), Num(0), Num(0), Num(2000)),
    Input(Num(1000), Num(2000), Num(500), Num(0), Num(0)),
    Input(Num(1000), Num(2000), Num(500), Num(0), Str("0")),
    Input(Num(1000), Num(2000), Num(500), Num(0), Str("3")),
    Input(Num(1000), Num(2000), Num(500), Num(0), Num(2500)),
    Input(Num(1000), Num(2000), Num(500), Num(0), Num(-1000)),
    Input(Num(0), Num(0), Num(0), Num(0), Num(3000)),
    Input(Num(400), Num(0), Num(0), Num(0), Num(3000)),
    Input(Null, Num(2000), Num(500), Num(0), Num(3000)),
    Input(Num(-1000), Num(2000), Num(500), Num(0), Num(3000)),
    Input(Num(1000), Num(2000), Num(500), Str(""), Num(3000)),
    Input(Num(1000), Num(2000), Num(500), Undefined, Num(0)),
    Obj([directMaterials |-> Num(1000), directLabor |-> Num(2000),
         manufacturingOverhead |-> Num(500), totalUnits |-> Num(3000)]) }

\* the precisions an engine is constructed with
Precisions == {0, 2, 3}

\* the engine's variables after an operation that ended in E
CommitEngine(E) ==
  /\ cache' = E.cache
  /\ results' = E.results
  /\ calculationHistory' = E.calculationHistory
  /\ cbLog' = E.cbLog

\* the state after `new HPPCalculator(options)`; the state container is idle
CalcInit ==
  /\ now = 0
  /\ isAvailable = TRUE
  /\ subscribers = [k \in SubKeys |-> <<>>]
  /\ state = getDefaultState
  /\ history = <<>>
  /\ isLoading = FALSE
  /\ storage = CHOOSE st \in InitialStorages : st.prefs = NoItem
  /\ microtasks = <<>>
  /\ emits = <<>>
  /\ calls = <<>>
  /\ saveCalls = 0
  /\ draining = FALSE
  /\ inits = InitCalls
  /\ timers = 1
  /\ nextSubId = 0
  /\ steps = 0
  /\ last = NoOp
  /\ options \in [precision : Precisions, validateInput : BOOLEAN, enableCaching : BOOLEAN]
  /\ cache = <<>>
  /\ results = <<>>
  /\ calculationHistory = <<>>
  /\ cbLog = <<>>
  /\ outcome = NoOutcome
  /\ served = <<>>
  /\ successes = <<>>
  /\ calcSteps = 0
  /\ ret = NoReturn
  /\ destroyed = FALSE

\* calculate(inputData) is called
Calculate(inputData) ==
  /\ calcSteps < MaxCalcSteps
  /\ \E E \in {calculate(Engine, inputData)} :
       /\ CommitEngine(E)
       /\ outcome' = [op |-> "calculate", input |-> inputData, kind |-> E.kind,
                      id |-> E.id, error |-> E.error]
       /\ served' = IF E.kind = "returned" /\ options.enableCaching
                    THEN \* the normalized input now stands for result E.id
                         With(normalizeInputData(inputData), LAMBDA norm :
                           [k \in (DOMAIN served) \cup {norm} |->
                              IF k = norm THEN E.id ELSE served[k]])
                    ELSE served
       /\ successes' = IF E.kind = "returned" THEN <<E.id>> \o successes ELSE successes
  /\ calcSteps' = calcSteps + 1
  /\ UNCHANGED <<smVars, options, apiVars>>

\* clearCache() is called
ClearCache ==
  /\ calcSteps < MaxCalcSteps
  /\ \E E \in {clearCache(Engine)} : CommitEngine(E)
  /\ outcome' = [NoOutcome EXCEPT !.op = "clearCache"]
  /\ served' = <<>>
  /\ calcSteps' = calcSteps + 1
  /\ UNCHANGED <<smVars, options, successes, apiVars>>

\* time passes between two calls
Elapse ==
  /\ calcSteps < MaxCalcSteps
  /\ now' = now + 1
  /\ cbLog' = <<>>
  /\ outcome' = [NoOutcome EXCEPT !.op = "elapse"]
  /\ calcSteps' = calcSteps + 1
  /\ UNCHANGED <<state, history, subscribers, isLoading, microtasks, draining, inits,
                 timers, storage, isAvailable, nextSubId, steps, last, emits, calls,
                 saveCalls>>
  /\ UNCHANGED <<options, cache, results, calculationHistory, served, successes, apiVars>>

CalcNext ==
  \/ \E inputData \in CalcInputs : Calculate(inputData)
  \/ ClearCache
  \/ Elapse

CalcSpec == CalcInit /\ [][CalcNext]_vars


(***************************************************************************)
(* Properties of the calculation engine                                    *)
(***************************************************************************)
\* the step just taken is a call of calculate
CalculateStep == outcome'.op = "calculate" /\ calcSteps' = calcSteps + 1

\* the events of the callbacks an operation triggered
Triggered(log) == {log[i].event : i \in 1..Len(log)}

\* the costs of an input add up to more than 0 and its totalUnits is 0
ZeroUnitsPositiveCosts(inputData) ==
  /\ LET cost(k) == OrElse(GetProp(inputData, k), Num(0))
     IN cost("directMaterials").n + cost("directLabor").n
          + cost("manufacturingOverhead").n + cost("otherCosts").n > 0
  /\ GetProp(inputData, "totalUnits") \in {Num(0), Str("0")}

\* the errors of a validation result on field
FieldErrors(result, field) ==
  {i \in 1..Len(result.errors) : result.errors[i].field = field}

\* C7: with caching enabled, a calculate whose normalized input is that of
\* an earlier calculate, with no clearCache in between, returns the result
\* object the earlier call returned and constructs no HPPResult; a calculate
\* whose normalized input was not served since the last clearCache
\* constructs a new HPPResult and returns it.
C7_CacheIdentity ==
  [][(CalculateStep /\ options.enableCaching /\ outcome'.kind = "returned")
       => LET norm == normalizeInputData(outcome'.input)
          IN IF norm \in DOMAIN served
             THEN outcome'.id = served[norm] /\ results' = results
             ELSE /\ Len(results') = Len(results) + 1
                  /\ outcome'.id = Len(results')]_vars

\* a call has been served from the cache the result object constructed for
\* a call whose raw input was another one with the same normalized input
C7_Witness ==
  /\ outcome.op = "calculate"
  /\ options.enableCaching
  /\ Triggered(cbLog) = {"cache-hit"}
  /\ GetProp(outcome.input, "directMaterials") = Num(1004)
  /\ results[outcome.id].directMaterials = Num(1000)

\* C8: the engine's history holds the min(n, 100) most recent successful
\* calculate calls, newest first, n counting the calls served from the cache
\* as well as those computed afresh.
C8_HistoryCountsEveryCall ==
  /\ Len(calculationHistory) =
       IF Len(successes) < historyLimit THEN Len(successes) ELSE historyLimit
  /\ \A i \in 1..Len(calculationHistory) :
       i <= Len(successes) =>
         calculationHistory[i].result = toJSON(results[successes[i]])

\* C9 with input validation enabled (options.validateInput): when
\* validateHPPData rejects the input, calculate throws, triggers the
\* calculation-error callback, constructs no HPPResult and leaves the cache
\* and the history as they were.
C9_RejectionWhenValidating ==
  [][(CalculateStep /\ options.validateInput
        /\ ~validateHPPData(outcome'.input).isValid)
       => /\ outcome'.kind = "threw"
          /\ Triggered(cbLog') = {"calculation-error"}
          /\ results' = results
          /\ cache' = cache
          /\ calculationHistory' = calculationHistory]_vars

\* C9 as stated, for every engine: when validateHPPData rejects the input,
\* calculate produces no HPPResult, signals the rejection and leaves the
\* cache and the history as they were.
C9_Rejection ==
  [][(CalculateStep /\ ~validateHPPData(outcome'.input).isValid)
       => /\ outcome'.kind = "threw"
          /\ Triggered(cbLog') = {"calculation-error"}
          /\ results' = results
          /\ cache' = cache
          /\ calculationHistory' = calculationHistory]_vars

\* a rejected call on an engine that holds a cached result and a history
C9_Witness ==
  /\ outcome.op = "calculate"
  /\ outcome.kind = "threw"
  /\ options.validateInput
  /\ ~validateHPPData(outcome.input).isValid
  /\ DOMAIN cache # {}
  /\ Len(calculationHistory) > 0

\* C10 with input validation enabled for its second half: for an input
\* whose costs add up to more than 0 and whose totalUnits is 0,
\* validateHPPData returns isValid = false with an error on totalUnits, and
\* a calculate of an engine that validates its input constructs no
\* HPPResult for it.
C10_ZeroUnitsWhenValidating ==
  [][(CalculateStep /\ ZeroUnitsPositiveCosts(outcome'.input))
       => /\ ~validateHPPData(outcome'.input).isValid
          /\ FieldErrors(validateHPPData(outcome'.input), "totalUnits") # {}
          /\ options.validateInput =>
               (outcome'.kind = "threw" /\ results' = results)]_vars

\* C10 as stated, for every engine: validateHPPData rejects such an input
\* with an error on totalUnits and calculate constructs no HPPResult for it.
C10_ZeroUnits ==
  [][(CalculateStep /\ ZeroUnitsPositiveCosts(outcome'.input))
       => /\ ~validateHPPData(outcome'.input).isValid
          /\ FieldErrors(validateHPPData(outcome'.input), "totalUnits") # {}
          /\ outcome'.kind = "threw"
          /\ results' = results]_vars

\* a calculate with positive costs and the string '0' for totalUnits has
\* been rejected
C10_Witness ==
  /\ outcome.op = "calculate"
  /\ ZeroUnitsPositiveCosts(outcome.input)
  /\ GetProp(outcome.input, "totalUnits") = Str("0")
  /\ options.validateInput
  /\ outcome.kind = "threw"
  /\ results = <<>>


(***************************************************************************)
(* The validation manager called directly                                  *)
(***************************************************************************)
\* the values validateField is called with
FieldValues ==
  {Num(0), Num(1000), Num(2500), Num(-1000), Null, Undefined, Str(""), Str("0"), Str("3")}

\* the data objects validateAll and validateHPPData are called with: those
\* of calculate and objects that leave a required field out or empty
ValidationInputs ==
  CalcInputs \cup
  { Obj([directLabor |-> Num(2000), manufacturingOverhead |-> Num(500),
         otherCosts |-> Num(0), totalUnits |-> Num(3000)]),
    Obj([directMaterials |-> Num(1000), directLabor |-> Num(2000),
         manufacturingOverhead |-> Num(500), otherCosts |-> Num(0)]),
    Input(Num(1000), Str(""), Num(500), Num(0), Num(3000)),
    Input(Num(1000), Num(2000), Undefined, Num(0), Num(3000)),
    Input(Num(1000), Num(2000), Num(500), Num(0), Null),
    Input(Num(1000), Num(2000), Num(500), Null, Num(3000)),
    Input(Num(1000), Num(2000), Num(500), Undefined, Num(3000)),
    Obj(NoFields) }

\* the default engine and an idle state container
ValidInit ==
  /\ CalcInit
  /\ options = [precision |-> 2, validateInput |-> TRUE, enableCaching |-> TRUE]

\* the engine's variables a direct call of the validation manager leaves alone
engineVars == <<options, cache, results, calculationHistory, cbLog, outcome,
                served, successes>>

\* defaultValidationManager.validateField(field, value) is called
ValidateField(field, value) ==
  /\ calcSteps < MaxCalcSteps
  /\ ret' = [op |-> "validateField", field |-> field, data |-> value,
             result |-> validateField(field, value)]
  /\ calcSteps' = calcSteps + 1
  /\ UNCHANGED <<smVars, engineVars, destroyed>>

\* defaultValidationManager.validateAll(data) is called
ValidateAll(data) ==
  /\ calcSteps < MaxCalcSteps
  /\ ret' = [op |-> "validateAll", field |-> "", data |-> data,
             result |-> validateAll(data)]
  /\ calcSteps' = calcSteps + 1
  /\ UNCHANGED <<smVars, engineVars, destroyed>>

\* defaultValidationManager.validateHPPData(data) is called
ValidateHPPData(data) ==
  /\ calcSteps < MaxCalcSteps
  /\ ret' = [op |-> "validateHPPData", field |-> "", data |-> data,
             result |-> validateHPPData(data)]
  /\ calcSteps' = calcSteps + 1
  /\ UNCHANGED <<smVars, engineVars, destroyed>>

\* the HPPResult object handed back to the caller, as a value
ResultValue(result) ==
  Obj([totalCosts |-> result.totalCosts, hppPerUnit |-> result.hppPerUnit,
       totalUnits |-> result.totalUnits, isValid |-> Bool(result.isValid)])

\* HPPCalculator.calculateDetailed: reading a property of null or undefined
\* in normalizeInputData throws, which the catch turns into a failure
calculateDetailed(inputData) ==
  IF inputData \in {Null, Undefined}
  THEN [success |-> FALSE, result |-> Null, error |-> "TypeError"]
  ELSE [success |-> TRUE, result |-> ResultValue(HPPResult(normalizeInputData(inputData))),
        error |-> ""]

\* calculateDetailed(inputData) is called on the engine
CalculateDetailed(inputData) ==
  /\ calcSteps < MaxCalcSteps
  /\ ret' = [op |-> "calculateDetailed", field |-> "", data |-> inputData,
             result |-> calculateDetailed(inputData)]
  /\ calcSteps' = calcSteps + 1
  /\ UNCHANGED <<smVars, engineVars, destroyed>>

ValidNext ==
  \/ \E i \in 1..Len(FieldOrder), value \in FieldValues : ValidateField(FieldOrder[i], value)
  \/ \E data \in ValidationInputs : ValidateAll(data)
  \/ \E data \in ValidationInputs : ValidateHPPData(data)
  \/ \E inputData \in ValidationInputs \cup {Null, Undefined} : CalculateDetailed(inputData)

ValidSpec == ValidInit /\ [][ValidNext]_vars

\* the fields VALIDATION.requiredFields names
requiredFields == {"directMaterials", "directLabor", "manufacturingOverhead", "totalUnits"}

\* a value that is null, undefined or the empty string (GetProp gives
\* undefined for a field the object does not have)
IsMissing(value) == value \in {Null, Undefined, Str("")}

\* the last call was validateAll or validateHPPData
ValidatedData == ret.op \in {"validateAll", "validateHPPData"}

\* C11: validateAll and validateHPPData return isValid = false and a
\* `required` error for each of directMaterials, directLabor,
\* manufacturingOverhead and totalUnits that is null, undefined, the empty
\* string or absent from the data object.
C11_RequiredFields ==
  ValidatedData =>
    \A f \in requiredFields :
      IsMissing(GetProp(ret.data, f)) =>
        /\ ~ret.result.isValid
        /\ \E i \in FieldErrors(ret.result, f) :
             ret.result.errors[i].message = ERROR_MESSAGES.required

\* the fields other than otherCosts hold valid numbers with a positive sum
OthersValid(data) ==
  /\ \A f \in requiredFields : GetProp(data, f).t = "number"
  /\ validateAll(Obj([f \in requiredFields |-> GetProp(data, f)])).isValid
  /\ \E f \in requiredFields \ {"totalUnits"} : LessThan(Num(0), GetProp(data, f))

\* C12: validation reports no error for an otherCosts that is absent, null,
\* undefined or the empty string (validateField('otherCosts', v), and
\* validateAll and validateHPPData when the other fields are valid with a
\* positive cost sum), and the engine's normalized input has otherCosts 0.
C12_OptionalOtherCosts ==
  /\ (ret.op = "validateField" /\ ret.field = "otherCosts" /\ IsMissing(ret.data))
       => FieldErrors(ret.result, "otherCosts") = {}
  /\ (ValidatedData /\ IsMissing(GetProp(ret.data, "otherCosts")) /\ OthersValid(ret.data))
       => /\ FieldErrors(ret.result, "otherCosts") = {}
          /\ GetProp(normalizeInputData(ret.data), "otherCosts") = Num(0)


(***************************************************************************)
(* Properties of the results the engine constructs                         *)
(***************************************************************************)
\* the sum of the four breakdown amounts of a result, in thousandths
BreakdownSum(result) ==
  result.breakdown.directMaterials.amount.n + result.breakdown.directLabor.amount.n
    + result.breakdown.manufacturingOverhead.amount.n
    + result.breakdown.otherCosts.amount.n

\* C13: in every HPPResult the engine has constructed, whatever its
\* precision, the four breakdown amounts add up to totalCosts exactly and
\* totalHPP equals totalCosts.
C13_AmountsAddUp ==
  \A i \in 1..Len(results) :
    /\ results[i].totalCosts = Num(BreakdownSum(results[i]))
    /\ results[i].totalHPP = results[i].totalCosts

\* the step just taken is a calculate that constructed an HPPResult
ConstructStep == CalculateStep /\ Len(results') = Len(results) + 1

\* the totalUnits of an input is the number 0 or a negative number, or a
\* string that reads as one
NoUnits(inputData) ==
  LET units == parseFloat(GetProp(inputData, "totalUnits"))
  IN units.p = "finite" /\ units.n <= 0

\* C14: an HPPResult built from an input whose totalUnits is 0 or negative
\* has hppPerUnit = 0, and the totalUnits of a normalized input is never
\* negative.
C14_NoUnitsNoPerUnitCost ==
  [][CalculateStep =>
       /\ (ConstructStep /\ NoUnits(outcome'.input))
            => results'[Len(results')].hppPerUnit = Num(0)
       /\ GetProp(normalizeInputData(outcome'.input), "totalUnits").n >= 0]_vars


(***************************************************************************)
(* StateActions (StateManager.js) and the application's calculation        *)
(* handler (app.js)                                                        *)
(***************************************************************************)
\* the elements of a JS array, as a sequence
ArrToSeq(v) == [i \in 1..Cardinality(DOMAIN v.f) |-> v.f[IndexKey[i]]]

\* an HPPResult (or its toJSON copy) as a value of the state tree
ResultObject(result) ==
  LET part(b) == Obj([amount |-> b.amount, percentage |-> b.percentage])
  IN Obj([directMaterials |-> result.directMaterials, directLabor |-> result.directLabor,
          manufacturingOverhead |-> result.manufacturingOverhead,
          otherCosts |-> result.otherCosts, totalUnits |-> result.totalUnits,
          totalCosts |-> result.totalCosts, hppPerUnit |-> result.hppPerUnit,
          totalHPP |-> result.totalHPP,
          breakdown |-> Obj([directMaterials |-> part(result.breakdown.directMaterials),
                             directLabor |-> part(result.breakdown.directLabor),
                             manufacturingOverhead |->
                               part(result.breakdown.manufacturingOverhead),
                             otherCosts |-> part(result.breakdown.otherCosts)]),
          timestamp |-> result.timestamp, isValid |-> Bool(result.isValid)])

\* StateActions.startCalculation
StateActions_startCalculation(M) ==
  updateState(M, << <<"calculation.isCalculating", Bool(TRUE)>>,
                    <<"calculation.error", Null>>,
                    <<"ui.isCalculating", Bool(TRUE)>> >>, "calculation-start")

\* StateActions.setCalculationResult
StateActions_setCalculationResult(M, result) ==
  updateState(M, << <<"calculation.current", result>>,
                    <<"calculation.isCalculating", Bool(FALSE)>>,
                    <<"calculation.lastCalculated", IsoString(now)>>,
                    <<"calculation.error", Null>>,
                    <<"ui.hasResults", Bool(TRUE)>> >>, "calculation-complete")

\* StateActions.setCalculationError
StateActions_setCalculationError(M, error) ==
  updateState(M, << <<"calculation.current", Null>>,
                    <<"calculation.isCalculating", Bool(FALSE)>>,
                    <<"calculation.error", error>>,
                    <<"ui.hasResults", Bool(FALSE)>> >>, "calculation-error")

\* StateActions.updateFormData
StateActions_updateFormData(M, formData) ==
  updateState(M,
    << <<"form.directMaterials", OrElse(GetProp(formData, "directMaterials"), Num(0))>>,
       <<"form.directLabor", OrElse(GetProp(formData, "directLabor"), Num(0))>>,
       <<"form.manufacturingOverhead",
         OrElse(GetProp(formData, "manufacturingOverhead"), Num(0))>>,
       <<"form.otherCosts", OrElse(GetProp(formData, "otherCosts"), Num(0))>>,
       <<"form.totalUnits", OrElse(GetProp(formData, "totalUnits"), Num(1000))>>,
       <<"form.isDirty", Bool(TRUE)>> >>, "form-update")

\* the first count elements of a list (history.splice(count) keeps them)
KeepFirst(list, count) ==
  SubSeq(list, 1, IF count < 0 THEN 0 ELSE IF count > Len(list) THEN Len(list) ELSE count)

\* a variant that never cuts the list
StateActions_addToHistoryUncapped(M, calculation) ==
  setState(M, "history.calculations",
           Arr(<<calculation>> \o ArrToSeq(getValueAtPath(M.state, "history.calculations"))),
           "history-add")

\* StateActions.addToHistory
StateActions_addToHistory(M, calculation) ==
  LET longer == <<calculation>> \o ArrToSeq(getValueAtPath(M.state, "history.calculations"))
      maxItems == getValueAtPath(M.state, "history.maxItems")
      kept == IF LessThan(maxItems, Num(Len(longer) * 1000))
              THEN KeepFirst(longer, ToNumber(maxItems).n \div 1000)
              ELSE longer
  IN setState(M, "history.calculations", Arr(kept), "history-add")

\* new Date().toLocaleDateString('id-ID') at instant k
LocaleDateString(k) == "D" \o NatToString(k)

\* the entry handleCalculation adds to the list for a result
historyEntry(result) ==
  Obj([id |-> Str(NatToString(now)), timestamp |-> IsoString(now),
       name |-> Str("Perhitungan " \o LocaleDateString(now)),
       data |-> ResultObject(toJSON(result))])

\* HPPCalculatorApp.handleCalculation, on the container context M after the
\* engine's calculate ended in E
handleCalculation(M, E, data) ==
  With(StateActions_startCalculation(M), LAMBDA M1 :
    IF E.kind = "returned" /\ E.results[E.id].isValid
    THEN With(StateActions_setCalculationResult(M1, ResultObject(E.results[E.id])),
              LAMBDA M2 :
         With(IF Truthy(getValueAtPath(M2.state, "settings.autoSave"))
              THEN StateActions_addToHistory(M2, historyEntry(E.results[E.id]))
              ELSE M2, LAMBDA M3 :
           StateActions_updateFormData(M3, data)))
    ELSE StateActions_setCalculationError(M1,
           Str(IF E.kind = "threw" THEN E.error ELSE "Invalid calculation result")))


(***************************************************************************)
(* The application around its two singletons: the state container, after   *)
(* the constructor's init() and the application's init() both finished,    *)
(* and the default calculation engine.                                     *)
(***************************************************************************)
\* the rest of init(), after `await this.loadFromStorage()`
initResume(M) ==
  emit([M EXCEPT !.isLoading = FALSE, !.microtasks = Tail(@)],
       "state:initialized", M.state)

\* a list entry as handleCalculation writes it, kept from an earlier visit
StoredEntry ==
  Obj([id |-> Str("9"), timestamp |-> IsoString(0), name |-> Str("Perhitungan D0"),
       data |-> Obj([totalCosts |-> Num(3500), hppPerUnit |-> Num(1167)])])

\* a calculation a caller hands to StateActions.addToHistory
ManualEntry(k) == Obj([id |-> Str(NatToString(k)), name |-> Str("manual")])

\* what the stores hold when the application is opened
AppStorages ==
  InitialStorages \cup {[prefs |-> NoItem, calcs |-> Arr(<<StoredEntry>>)]}

\* the data of the calculation requests, and the other writes of a session
AppInputs ==
  { Input(Num(1000), Num(2000), Num(500), Num(0), Num(3000)),
    Input(Num(2500), Num(0), Num(0), Num(0), Num(2000)),
    Input(Num(1000), Num(2000), Num(500), Num(0), Num(0)) }
AppSetStateInputs ==
  { <<"settings.autoSave", Bool(FALSE)>>, <<"settings.autoSave", Bool(TRUE)>>,
    <<"history.maxItems", Num(2000)>>, <<"history.maxItems", Num(1000)>> }

AppInit ==
  /\ now = 0
  /\ isAvailable \in BOOLEAN
  /\ subscribers = [k \in SubKeys |-> <<>>]
  /\ \E st \in AppStorages :
     \E M \in {initResume(initStart(initResume(initStart(
                 [state |-> getDefaultState, history |-> <<>>,
                  isLoading |-> FALSE, storage |-> st, microtasks |-> <<>>,
                  emits |-> <<>>, calls |-> <<>>, saveCalls |-> 0]))))} :
          /\ state = M.state
          /\ history = M.history
          /\ isLoading = M.isLoading
          /\ storage = M.storage
          /\ microtasks = M.microtasks
  /\ emits = <<>>
  /\ calls = <<>>
  /\ saveCalls = 0
  /\ draining = FALSE
  /\ inits = InitCalls
  /\ timers = InitCalls
  /\ nextSubId = 0
  /\ steps = 0
  /\ last = [NoOp EXCEPT !.op = "initResume"]
  /\ options = [precision |-> 2, validateInput |-> TRUE, enableCaching |-> TRUE]
  /\ cache = <<>>
  /\ results = <<>>
  /\ calculationHistory = <<>>
  /\ cbLog = <<>>
  /\ outcome = NoOutcome
  /\ served = <<>>
  /\ successes = <<>>
  /\ calcSteps = 0
  /\ ret = NoReturn
  /\ destroyed = FALSE

\* the form dispatches 'hpp:calculate' with detail.data = data
HandleCalculation(data) ==
  /\ ~draining
  /\ steps < MaxSteps
  /\ \E E \in {calculate(Engine, data)} :
       /\ CommitEngine(E)
       /\ outcome' = [op |-> "calculate", input |-> data, kind |-> E.kind,
                      id |-> E.id, error |-> E.error]
       /\ served' = IF E.kind = "returned" /\ options.enableCaching
                    THEN With(normalizeInputData(data), LAMBDA norm :
                           [k \in (DOMAIN served) \cup {norm} |->
                              IF k = norm THEN E.id ELSE served[k]])
                    ELSE served
       /\ successes' = IF E.kind = "returned" THEN <<E.id>> \o successes ELSE successes
       /\ \E M \in {handleCalculation(Context, E, data)} : Commit(M)
  /\ last' = [NoOp EXCEPT !.op = "handleCalculation", !.value = data]
  /\ steps' = steps + 1
  /\ UNCHANGED <<subscribers, draining, inits, timers, isAvailable, now, nextSubId>>
  /\ UNCHANGED <<options, calcSteps, apiVars>>

\* a task calls StateActions.addToHistory(calculation)
AddToHistory(calculation) ==
  /\ ~draining
  /\ steps < MaxSteps
  /\ \E M \in {StateActions_addToHistory(Context, calculation)} : Commit(M)
  /\ last' = [NoOp EXCEPT !.op = "addToHistory", !.value = calculation]
  /\ steps' = steps + 1
  /\ UNCHANGED <<subscribers, draining, inits, timers, isAvailable, now, nextSubId>>
  /\ UNCHANGED <<calcVars, apiVars>>

\* the page is loaded again: a new container is constructed on the same
\* storage, and its constructor's init() and the application's init() run to
\* their ends; whatever was pending in the old page is gone
Reload ==
  /\ \E M \in {initResume(initStart(initResume(initStart(
                 [state |-> getDefaultState, history |-> <<>>,
                  isLoading |-> FALSE, storage |-> storage, microtasks |-> <<>>,
                  emits |-> <<>>, calls |-> <<>>, saveCalls |-> 0]))))} : Commit(M)
  /\ subscribers' = [k \in SubKeys |-> <<>>]
  /\ draining' = FALSE
  /\ inits' = InitCalls
  /\ timers' = InitCalls
  /\ nextSubId' = 0
  /\ destroyed' = FALSE
  /\ last' = [NoOp EXCEPT !.op = "reload"]
  /\ UNCHANGED <<isAvailable, now, steps>>
  /\ UNCHANGED <<calcVars, ret>>

AppNext ==
  \/ \E data \in AppInputs : HandleCalculation(data)
  \/ \E k \in 1..2 : AddToHistory(ManualEntry(k))
  \/ \E in \in AppSetStateInputs : SetState(in[1], in[2])
  \/ SaveResume
  \/ Reload
  \/ Tick

AppSpec == AppInit /\ [][AppNext]_vars

\* the calculation list of the state tree, newest first
Calculations(tree) == ArrToSeq(getValueAtPath(tree, "history.calculations"))

\* the step just taken is a call of StateActions.addToHistory
AddToHistoryStep == last'.op = "addToHistory" /\ steps' = steps + 1

\* the list's cap as a number of entries
MaxItems(tree) == getValueAtPath(tree, "history.maxItems").n \div 1000

\* C15: StateActions.addToHistory puts the calculation at the front of the
\* list, keeps the earlier entries behind it in their order, and cuts the
\* list at history.maxItems entries, dropping the oldest
C15_AddToHistoryCap ==
  [][AddToHistoryStep =>
       /\ Calculations(state') =
            KeepFirst(<<last'.value>> \o Calculations(state), MaxItems(state))
       /\ Len(Calculations(state')) <= MaxItems(state)
       /\ Len(Calculations(state)) = MaxItems(state) =>
            Calculations(state') =
              <<last'.value>> \o SubSeq(Calculations(state), 1, MaxItems(state) - 1)]_vars

\* C15 witness: the entry loaded from the store was the oldest of a full list
\* of two, and a call evicted it and put the new entry in front
C15_Witness ==
  /\ last.op = "addToHistory"
  /\ MaxItems(state) = 2
  /\ storage.calcs = Arr(<<StoredEntry>>)
  /\ Calculations(state) = <<ManualEntry(2), ManualEntry(1)>>
  /\ last.value = ManualEntry(2)


\* the step just taken is a calculation request handled by the application,
\* and the engine returned a valid result for it
HandleCalculationStep == last'.op = "handleCalculation" /\ steps' = steps + 1
ValidResult == outcome'.kind = "returned" /\ results'[outcome'.id].isValid

\* C16: every calculation request the application handles that yields a valid
\* result puts exactly one new entry, holding that result, at the head of
\* history.calculations, whatever the settings; the earlier entries follow it
\* unedited (the cap may evict from the tail)
C16_HistoryAppend ==
  [][HandleCalculationStep /\ ValidResult =>
       Calculations(state') =
         KeepFirst(<<historyEntry(results'[outcome'.id])>> \o Calculations(state),
                   MaxItems(state))]_vars


(***************************************************************************)
(* Snapshots and imports of the state container                            *)
(***************************************************************************)
\* { ...a, ...x } for an object a and any value x: a primitive contributes
\* no property, a string its characters, an array its elements
ObjectSpread(a, x) ==
  Obj([k \in (DOMAIN a.f) \cup ObjectKeys(x) |->
         IF k \in ObjectKeys(x) THEN GetProp(x, k) ELSE a.f[k]])

\* getState() without a path returns `{ ...this.state }`: the top-level
\* properties are copied, the nested objects are the container's own.  A
\* caller's assignment snapshot.a.b = value therefore lands in the object the
\* container holds under a; snapshot.a = value changes the copy alone.
\* The container's tree after such an assignment:
treeAfterSnapshotWrite(tree, path, value) ==
  IF Len(SplitPath(path)) >= 2 /\ TypeofObject(GetProp(tree, Head(SplitPath(path))))
     /\ Truthy(GetProp(tree, Head(SplitPath(path))))
  THEN setValueAtPath(tree, path, value)
  ELSE tree

\* the snapshot itself after the assignment
snapshotAfterWrite(tree, path, value) == setValueAtPath(ObjectSpread(EmptyObj, tree), path, value)

\* reading data.state of null or undefined throws a TypeError
importThrows(data) == data \in {Null, Undefined}

\* StateManager.import(data), for data that is not null or undefined
import(M, data) ==
  With(IF Truthy(GetProp(data, "state"))
       THEN [M EXCEPT !.state = ObjectSpread(getDefaultState, GetProp(data, "state"))]
       ELSE M, LAMBDA M1 :
  With(IF Truthy(GetProp(data, "history")) /\ GetProp(data, "history").t = "array"
       THEN [M1 EXCEPT !.history = ArrToSeq(GetProp(data, "history"))]
       ELSE M1, LAMBDA M2 :
    saveToStorage(emit(M2, "state:imported", data))))

\* the payloads import is called with
PartialState == Obj([ui |-> Obj([theme |-> Str("dark")])])
FullState == setValueAtPath(getDefaultState, "ui.theme", Str("dark"))
ImportedChange ==
  Obj([path |-> Str("ui.theme"), oldValue |-> Str("dark"), newValue |-> Str("light"),
       source |-> Str("manual"), timestamp |-> IsoString(0)])
LongLogLength == maxHistoryLength + 1
ImportInputs ==
  { Null, Undefined, Num(5000), Str("id"),
    Obj([state |-> Null]), Obj([state |-> Num(5000)]), Obj([state |-> Str("id")]),
    Obj([state |-> Bool(TRUE)]), Obj([state |-> EmptyObj]),
    Obj([state |-> PartialState]),
    Obj([state |-> FullState, history |-> Arr(<<ImportedChange>>)]),
    Obj([history |-> Arr(<<ImportedChange>>)]),
    Obj([history |-> Arr([i \in 1..LongLogLength |-> ImportedChange])]) }

\* the assignments a caller makes on a snapshot
SnapshotWrites ==
  { <<"ui.theme", Str("dark")>>, <<"ui.theme", Str("light")>>,
    <<"settings.autoSave", Bool(FALSE)>>, <<"ui", EmptyObj>> }

\* a task calls import(data)
Import(data) ==
  /\ ~draining
  /\ steps < MaxSteps
  /\ IF importThrows(data)
     THEN /\ emits' = <<>>
          /\ calls' = <<>>
          /\ saveCalls' = 0
          /\ UNCHANGED <<state, history, isLoading, storage, microtasks>>
     ELSE \E M \in {import(Context, data)} : Commit(M)
  /\ ret' = [op |-> "import", field |-> "", data |-> data,
             result |-> IF importThrows(data) THEN <<"TypeError">> ELSE <<>>]
  /\ last' = [NoOp EXCEPT !.op = "import", !.value = data]
  /\ steps' = steps + 1
  /\ UNCHANGED <<subscribers, draining, inits, timers, isAvailable, now, nextSubId>>
  /\ UNCHANGED <<calcVars, destroyed>>

\* a task calls getState() and assigns value at path in the returned object
WriteSnapshot(path, value) ==
  /\ ~draining
  /\ steps < MaxSteps
  /\ state' = treeAfterSnapshotWrite(state, path, value)
  /\ ret' = [op |-> "getState", field |-> path, data |-> value,
             result |-> <<snapshotAfterWrite(state, path, value)>>]
  /\ emits' = <<>>
  /\ calls' = <<>>
  /\ saveCalls' = 0
  /\ last' = [NoOp EXCEPT !.op = "writeSnapshot", !.path = path, !.value = value]
  /\ steps' = steps + 1
  /\ UNCHANGED <<history, isLoading, storage, microtasks>>
  /\ UNCHANGED <<subscribers, draining, inits, timers, isAvailable, now, nextSubId>>
  /\ UNCHANGED <<calcVars, destroyed>>

ImportNext ==
  \/ \E data \in ImportInputs : Import(data)
  \/ \E in \in SnapshotWrites : WriteSnapshot(in[1], in[2])
  \/ \E in \in AppSetStateInputs : SetState(in[1], in[2])
  \/ SaveResume
  \/ Tick

ImportSpec == AppInit /\ [][ImportNext]_vars

\* the step just taken is an assignment on a snapshot / a call of import
WriteSnapshotStep == last'.op = "writeSnapshot" /\ steps' = steps + 1
ImportStep == last'.op = "import" /\ steps' = steps + 1

\* C17: assigning to any nested value of the object getState() returned
\* leaves the container's state tree unchanged
C17_SnapshotIndependence == [][WriteSnapshotStep => state' = state]_vars


\* the key paths of an object tree, and whether a tree has a key path
RECURSIVE KeyPaths(_)
KeyPaths(v) ==
  IF v.t = "object"
  THEN UNION {{<<k>>} \cup {<<k>> \o rest : rest \in KeyPaths(v.f[k])} : k \in DOMAIN v.f}
  ELSE {}
RECURSIVE HasPath(_, _)
HasPath(v, keys) ==
  \/ keys = <<>>
  \/ /\ v.t = "object"
     /\ Head(keys) \in DOMAIN v.f
     /\ HasPath(v.f[Head(keys)], Tail(keys))

\* C18: after import(data) with an object tree as data.state, every key path
\* of the default tree has a value in the state tree, and a path data.state
\* omits holds its default value
C18_ImportFallsBackToDefaults ==
  [][ImportStep /\ ~importThrows(last'.value)
       /\ GetProp(last'.value, "state").t = "object" =>
       \A keys \in KeyPaths(getDefaultState) :
         /\ HasPath(state', keys)
         /\ ~HasPath(GetProp(last'.value, "state"), keys) =>
              reduceGet(state', keys) = reduceGet(getDefaultState, keys)]_vars

\* a payload import cannot use: null or undefined, not an object, or with a
\* `state` that is not an object tree
Malformed(data) ==
  \/ importThrows(data)
  \/ data.t # "object"
  \/ /\ "state" \in DOMAIN data.f
     /\ GetProp(data, "state").t # "object"

\* C19: import of a malformed payload leaves the state tree as it was
C19_FailedImportHarmless ==
  [][ImportStep /\ Malformed(last'.value) => state' = state]_vars


(***************************************************************************)
(* CalculationsStorage (storage.js)                                        *)
(***************************************************************************)
\* DEFAULTS.maxHistoryItems
maxHistoryItems == 50

\* JSON.parse on the texts handed to importCalculations: the parsed value,
\* or a SyntaxError
ValidCalc ==
  Obj([id |-> Str("a"),
       data |-> Obj([directMaterials |-> Num(1000), directLabor |-> Num(2000),
                     manufacturingOverhead |-> Num(500), totalUnits |-> Num(3000)])])
InvalidCalc ==
  Obj([id |-> Str("b"),
       data |-> Obj([directMaterials |-> Str("1"), directLabor |-> Num(2000),
                     manufacturingOverhead |-> Num(500), totalUnits |-> Num(3000)])])
Parsed(value) == [ok |-> TRUE, value |-> value]
SyntaxError == [ok |-> FALSE, value |-> Undefined]
jsonParse(text) ==
  CASE text = "null" -> Parsed(Null)
    [] text = "5" -> Parsed(Num(5000))
    [] text = "{}" -> Parsed(EmptyObj)
    [] text = "[]" -> Parsed(EmptyArr)
    [] text = "{\"calculations\":\"id\"}" -> Parsed(Obj([calculations |-> Str("id")]))
    [] text = "{\"calculations\":null}" -> Parsed(Obj([calculations |-> Null]))
    [] text = "{\"calculations\":[]}" -> Parsed(Obj([calculations |-> EmptyArr]))
    [] text = "{\"calculations\":[valid,invalid]}" ->
         Parsed(Obj([calculations |-> Arr(<<ValidCalc, InvalidCalc>>)]))
    [] text = "{\"calculations\":[null]}" -> Parsed(Obj([calculations |-> Arr(<<Null>>)]))
    [] OTHER -> SyntaxError
ImportTexts ==
  { "", "not json", "{\"calculations\":", "null", "5", "{}", "[]",
    "{\"calculations\":\"id\"}", "{\"calculations\":null}", "{\"calculations\":[]}",
    "{\"calculations\":[valid,invalid]}", "{\"calculations\":[null]}" }

\* typeof v === 'number'
TypeofNumber(v) == v.t = "number"

\* the filter of importCalculations; reading calc.data of null throws
calcIsValid(calc) ==
  /\ Truthy(GetProp(calc, "data"))
  /\ TypeofNumber(GetProp(GetProp(calc, "data"), "directMaterials"))
  /\ TypeofNumber(GetProp(GetProp(calc, "data"), "directLabor"))
  /\ TypeofNumber(GetProp(GetProp(calc, "data"), "manufacturingOverhead"))
  /\ TypeofNumber(GetProp(GetProp(calc, "data"), "totalUnits"))
RECURSIVE filterValid(_)
filterValid(list) ==
  IF list = <<>> THEN <<>>
  ELSE (IF calcIsValid(Head(list)) THEN <<Head(list)>> ELSE <<>>) \o filterValid(Tail(list))

\* the StorageResult of an operation and the storage after it
StorageOutcome(st, success, error) == [storage |-> st, success |-> success, error |-> error]

\* a variant that stores whatever the text holds under `calculations`
importCalculationsUnchecked(st, jsonData) ==
  LET parsed == jsonParse(jsonData)
      list == IF parsed.ok /\ parsed.value.t = "object"
                 /\ GetProp(parsed.value, "calculations").t = "array"
              THEN GetProp(parsed.value, "calculations") ELSE EmptyArr
  IN StorageOutcome([st EXCEPT !.calcs = setItem(st.calcs, list)], isAvailable, "")

\* CalculationsStorage.importCalculations
importCalculations(st, jsonData) ==
  LET parsed == jsonParse(jsonData)
      importData == parsed.value
  IN IF ~parsed.ok \/ importData \in {Null, Undefined}
     THEN StorageOutcome(st, FALSE, "Import error")
     ELSE IF ~Truthy(GetProp(importData, "calculations"))
             \/ GetProp(importData, "calculations").t # "array"
     THEN StorageOutcome(st, FALSE, "Invalid import format")
     ELSE IF \E k \in DOMAIN GetProp(importData, "calculations").f :
               GetProp(importData, "calculations").f[k] \in {Null, Undefined}
     THEN StorageOutcome(st, FALSE, "Import error")
     ELSE StorageOutcome(
            [st EXCEPT !.calcs =
               setItem(st.calcs,
                       Arr(filterValid(ArrToSeq(GetProp(importData, "calculations")))))],
            isAvailable, IF isAvailable THEN "" ELSE "Storage not available")

\* CalculationsStorage.saveCalculation, with id the generated identifier
saveCalculation(st, calculation, id) ==
  LET calculationData ==
        Obj([id |-> Str(id), timestamp |-> IsoString(now),
             name |-> OrElse(GetProp(calculation, "name"),
                             Str("Perhitungan " \o LocaleDateString(now))),
             data |-> Obj([directMaterials |->
                             OrElse(GetProp(calculation, "directMaterials"), Num(0)),
                           directLabor |->
                             OrElse(GetProp(calculation, "directLabor"), Num(0)),
                           manufacturingOverhead |->
                             OrElse(GetProp(calculation, "manufacturingOverhead"), Num(0)),
                           otherCosts |->
                             OrElse(GetProp(calculation, "otherCosts"), Num(0)),
                           totalUnits |->
                             OrElse(GetProp(calculation, "totalUnits"), Num(1000)),
                           hppPerUnit |->
                             OrElse(GetProp(calculation, "hppPerUnit"), Num(0)),
                           totalHPP |-> OrElse(GetProp(calculation, "totalHPP"), Num(0))])])
      existingResult == getAllCalculations(st)
      calculations == <<calculationData>> \o ArrToSeq(existingResult[2])
  IN IF ~existingResult[1]
     THEN StorageOutcome(st, FALSE, "Storage not available")
     ELSE StorageOutcome(
            [st EXCEPT !.calcs = setItem(st.calcs,
                                         Arr(KeepFirst(calculations, maxHistoryItems)))],
            isAvailable, "")

\* the calculations a caller saves, and the identifiers generateId draws
SavedCalculations ==
  { Obj([name |-> Str("first"), directMaterials |-> Num(1000), directLabor |-> Num(2000),
         manufacturingOverhead |-> Num(500), otherCosts |-> Num(0),
         totalUnits |-> Num(3000), hppPerUnit |-> Num(1170), totalHPP |-> Num(3500)]),
    Obj([directMaterials |-> Num(2500), totalUnits |-> Num(0)]) }
GeneratedIds == {"k1", "k2"}

\* a task calls importCalculations(jsonData)
ImportCalculations(jsonData) ==
  /\ steps < MaxSteps
  /\ \E R \in {importCalculations(storage, jsonData)} :
       /\ storage' = R.storage
       /\ ret' = [op |-> "importCalculations", field |-> "", data |-> Str(jsonData),
                  result |-> <<R.success, R.error>>]
  /\ last' = [NoOp EXCEPT !.op = "importCalculations"]
  /\ steps' = steps + 1
  /\ UNCHANGED <<state, history, subscribers, isLoading, microtasks, draining, inits,
                 timers, isAvailable, now, nextSubId, emits, calls, saveCalls>>
  /\ UNCHANGED <<calcVars, destroyed>>

\* a task calls saveCalculation(calculation)
SaveCalculation(calculation, id) ==
  /\ steps < MaxSteps
  /\ \E R \in {saveCalculation(storage, calculation, id)} :
       /\ storage' = R.storage
       /\ ret' = [op |-> "saveCalculation", field |-> "", data |-> calculation,
                  result |-> <<R.success, R.error>>]
  /\ last' = [NoOp EXCEPT !.op = "saveCalculation"]
  /\ steps' = steps + 1
  /\ UNCHANGED <<state, history, subscribers, isLoading, microtasks, draining, inits,
                 timers, isAvailable, now, nextSubId, emits, calls, saveCalls>>
  /\ UNCHANGED <<calcVars, destroyed>>

StoreNext ==
  \/ \E jsonData \in ImportTexts : ImportCalculations(jsonData)
  \/ \E calculation \in SavedCalculations, id \in GeneratedIds :
       SaveCalculation(calculation, id)
  \/ Tick

StoreSpec == AppInit /\ [][StoreNext]_vars

\* the step just taken is a call of importCalculations
ImportCalculationsStep == last'.op = "importCalculations" /\ steps' = steps + 1

\* the text is not valid JSON, or is JSON without a `calculations` array
NoCalculationsArray(text) ==
  \/ ~jsonParse(text).ok
  \/ jsonParse(text).value.t # "object"
  \/ GetProp(jsonParse(text).value, "calculations").t # "array"

\* C20: importCalculations given text that is not valid JSON, or JSON without
\* a `calculations` array, returns success = false and leaves the stored list
\* unchanged: getAllCalculations returns the same list as before
C20_FailedStorageImportHarmless ==
  [][ImportCalculationsStep /\ NoCalculationsArray(ret'.data.p) =>
       /\ ret'.result[1] = FALSE
       /\ storage' = storage
       /\ getAllCalculations(storage') = getAllCalculations(storage)]_vars

\* C20 witness: an import of malformed text failed on an available store that
\* holds saved calculations, and the list is still there
C20_Witness ==
  /\ ret.op = "importCalculations"
  /\ NoCalculationsArray(ret.data.p)
  /\ ret.result[1] = FALSE
  /\ isAvailable
  /\ getAllCalculations(storage)[1]
  /\ Len(ArrToSeq(getAllCalculations(storage)[2])) = 2


(***************************************************************************)
(* The storage managers called directly.  The store holds one item per     *)
(* manager: "calcs" under the prefix 'hpp_calc_' and "prefs" under         *)
(* 'hpp_pref_'; the prefix 'hpp_' of the base manager matches both.        *)
(***************************************************************************)
StoreKeys == {"prefs", "calcs"}

\* BaseStorage.setItem, with its StorageResult
setItemResult(st, key, value) ==
  IF ~isAvailable THEN StorageOutcome(st, FALSE, "Storage not available")
  ELSE StorageOutcome([st EXCEPT ![key] = setItem(st[key], value)], TRUE, "")

\* BaseStorage.removeItem
removeItem(st, key) ==
  IF ~isAvailable THEN StorageOutcome(st, FALSE, "Storage not available")
  ELSE StorageOutcome([st EXCEPT ![key] = NoItem], TRUE, "")

\* BaseStorage.clear, on a manager whose prefix matches keys
clear(st, keys) ==
  IF ~isAvailable THEN StorageOutcome(st, FALSE, "Storage not available")
  ELSE StorageOutcome([k \in DOMAIN st |-> IF k \in keys THEN NoItem ELSE st[k]], TRUE, "")

\* BaseStorage.getAllItems: the success flag
getAllItems(st) == isAvailable

\* CalculationsStorage.deleteCalculation
deleteCalculation(st, id) ==
  LET result == getAllCalculations(st)
      calculations == SelectSeq(ArrToSeq(result[2]),
                                LAMBDA calc : ~StrictEq(GetProp(calc, "id"), id))
  IN IF ~result[1] THEN StorageOutcome(st, FALSE, "Storage not available")
     ELSE setItemResult(st, "calcs", Arr(calculations))

\* CalculationsStorage.updateCalculation
updateCalculation(st, id, updatedData) ==
  LET result == getAllCalculations(st)
      list == ArrToSeq(result[2])
      calculations == [i \in 1..Len(list) |->
                         IF StrictEq(GetProp(list[i], "id"), id)
                         THEN PutProp(Spread(list[i], updatedData), "id", id)
                         ELSE list[i]]
  IN IF ~result[1] THEN StorageOutcome(st, FALSE, "Storage not available")
     ELSE setItemResult(st, "calcs", Arr(calculations))

\* PreferencesStorage.savePreferences, with its StorageResult
savePreferencesResult(st, preferences) ==
  StorageOutcome(savePreferences(st, preferences), isAvailable,
                 IF isAvailable THEN "" ELSE "Storage not available")

\* JSON.parse on the texts handed to restoreBackup
backupParse(text) ==
  CASE text = "null" -> Parsed(Null)
    [] text = "{}" -> Parsed(EmptyObj)
    [] text = "{\"data\":{}}" -> Parsed(Obj([data |-> EmptyObj]))
    [] text = "{\"data\":{calculations,preferences}}" ->
         Parsed(Obj([data |-> Obj([calculations |-> Arr(<<ValidCalc>>),
                                   preferences |-> Obj([theme |-> Str("dark")])])]))
    [] OTHER -> SyntaxError
BackupTexts ==
  {"not json", "null", "{}", "{\"data\":{}}", "{\"data\":{calculations,preferences}}"}

\* StorageManager.restoreBackup: the results of the two setItem calls are
\* not looked at
restoreBackup(st, backupData) ==
  LET parsed == backupParse(backupData)
      backup == parsed.value
  IN IF ~parsed.ok \/ backup \in {Null, Undefined}
     THEN StorageOutcome(st, FALSE, "Restore error")
     ELSE IF ~Truthy(GetProp(backup, "data"))
     THEN StorageOutcome(st, FALSE, "Invalid backup format")
     ELSE With(IF Truthy(GetProp(GetProp(backup, "data"), "calculations"))
               THEN setItemResult(st, "calcs",
                                  GetProp(GetProp(backup, "data"), "calculations")).storage
               ELSE st, LAMBDA st1 :
          With(IF Truthy(GetProp(GetProp(backup, "data"), "preferences"))
               THEN setItemResult(st1, "prefs",
                                  GetProp(GetProp(backup, "data"), "preferences")).storage
               ELSE st1, LAMBDA st2 :
            StorageOutcome(st2, TRUE, "")))

\* StorageManager.clearAllData: clearCalculations, resetPreferences and the
\* base manager's clear, whose results are not looked at
clearAllData(st) ==
  With(setItemResult(st, "calcs", EmptyArr).storage, LAMBDA st1 :
  With(setItemResult(st1, "prefs", DefaultPreferences).storage, LAMBDA st2 :
    StorageOutcome(clear(st2, StoreKeys).storage, TRUE, "")))


\* the values a caller stores, the identifiers it names, its updates
StoredItems ==
  { <<"calcs", EmptyArr>>, <<"calcs", Arr(<<ValidCalc>>)>>,
    <<"prefs", Obj([theme |-> Str("dark")])>> }
CalculationIds == {Str("a"), Str("k1"), Str("9")}
CalculationUpdates == {Obj([name |-> Str("renamed")]), Obj([id |-> Str("z")])}
PreferenceChanges == {Obj([theme |-> Str("dark")]), Obj([autoSave |-> Bool(FALSE)])}

\* a task calls setItem(key, value) on the manager of key
SetItem(key, value) ==
  /\ steps < MaxSteps
  /\ \E R \in {setItemResult(storage, key, value)} :
       /\ storage' = R.storage
       /\ ret' = [op |-> "setItem", field |-> key, data |-> value,
                  result |-> <<R.success, R.error>>]
  /\ last' = [NoOp EXCEPT !.op = "setItem"]
  /\ steps' = steps + 1
  /\ UNCHANGED <<state, history, subscribers, isLoading, microtasks, draining, inits,
                 timers, isAvailable, now, nextSubId, emits, calls, saveCalls>>
  /\ UNCHANGED <<calcVars, destroyed>>

\* a task calls getItem(key, defaultValue) on the manager of key
GetItem(key) ==
  /\ steps < MaxSteps
  /\ ret' = [op |-> "getItem", field |-> key, data |-> getItem(storage[key], Null)[2],
             result |-> <<getItem(storage[key], Null)[1],
                          IF isAvailable THEN "" ELSE "Storage not available">>]
  /\ storage' = storage
  /\ last' = [NoOp EXCEPT !.op = "getItem"]
  /\ steps' = steps + 1
  /\ UNCHANGED <<state, history, subscribers, isLoading, microtasks, draining, inits,
                 timers, isAvailable, now, nextSubId, emits, calls, saveCalls>>
  /\ UNCHANGED <<calcVars, destroyed>>

\* a task calls removeItem(key) on the manager of key
RemoveItem(key) ==
  /\ steps < MaxSteps
  /\ \E R \in {removeItem(storage, key)} :
       /\ storage' = R.storage
       /\ ret' = [op |-> "removeItem", field |-> key, data |-> Undefined,
                  result |-> <<R.success, R.error>>]
  /\ last' = [NoOp EXCEPT !.op = "removeItem"]
  /\ steps' = steps + 1
  /\ UNCHANGED <<state, history, subscribers, isLoading, microtasks, draining, inits,
                 timers, isAvailable, now, nextSubId, emits, calls, saveCalls>>
  /\ UNCHANGED <<calcVars, destroyed>>

\* a task calls clear() on a manager whose prefix matches keys
Clear(keys) ==
  /\ steps < MaxSteps
  /\ \E R \in {clear(storage, keys)} :
       /\ storage' = R.storage
       /\ ret' = [op |-> "clear", field |-> "", data |-> Undefined,
                  result |-> <<R.success, R.error>>]
  /\ last' = [NoOp EXCEPT !.op = "clear"]
  /\ steps' = steps + 1
  /\ UNCHANGED <<state, history, subscribers, isLoading, microtasks, draining, inits,
                 timers, isAvailable, now, nextSubId, emits, calls, saveCalls>>
  /\ UNCHANGED <<calcVars, destroyed>>

\* a task calls getAllItems()
GetAllItems ==
  /\ steps < MaxSteps
  /\ ret' = [op |-> "getAllItems", field |-> "", data |-> Undefined,
             result |-> <<getAllItems(storage),
                          IF isAvailable THEN "" ELSE "Storage not available">>]
  /\ storage' = storage
  /\ last' = [NoOp EXCEPT !.op = "getAllItems"]
  /\ steps' = steps + 1
  /\ UNCHANGED <<state, history, subscribers, isLoading, microtasks, draining, inits,
                 timers, isAvailable, now, nextSubId, emits, calls, saveCalls>>
  /\ UNCHANGED <<calcVars, destroyed>>

\* a task calls deleteCalculation(id)
DeleteCalculation(id) ==
  /\ steps < MaxSteps
  /\ \E R \in {deleteCalculation(storage, id)} :
       /\ storage' = R.storage
       /\ ret' = [op |-> "deleteCalculation", field |-> "", data |-> id,
                  result |-> <<R.success, R.error>>]
  /\ last' = [NoOp EXCEPT !.op = "deleteCalculation"]
  /\ steps' = steps + 1
  /\ UNCHANGED <<state, history, subscribers, isLoading, microtasks, draining, inits,
                 timers, isAvailable, now, nextSubId, emits, calls, saveCalls>>
  /\ UNCHANGED <<calcVars, destroyed>>

\* a task calls updateCalculation(id, updatedData)
UpdateCalculation(id, updatedData) ==
  /\ steps < MaxSteps
  /\ \E R \in {updateCalculation(storage, id, updatedData)} :
       /\ storage' = R.storage
       /\ ret' = [op |-> "updateCalculation", field |-> id.p, data |-> updatedData,
                  result |-> <<R.success, R.error>>]
  /\ last' = [NoOp EXCEPT !.op = "updateCalculation"]
  /\ steps' = steps + 1
  /\ UNCHANGED <<state, history, subscribers, isLoading, microtasks, draining, inits,
                 timers, isAvailable, now, nextSubId, emits, calls, saveCalls>>
  /\ UNCHANGED <<calcVars, destroyed>>

\* a task calls savePreferences(preferences)
SavePreferences(preferences) ==
  /\ steps < MaxSteps
  /\ \E R \in {savePreferencesResult(storage, preferences)} :
       /\ storage' = R.storage
       /\ ret' = [op |-> "savePreferences", field |-> "", data |-> preferences,
                  result |-> <<R.success, R.error>>]
  /\ last' = [NoOp EXCEPT !.op = "savePreferences"]
  /\ steps' = steps + 1
  /\ UNCHANGED <<state, history, subscribers, isLoading, microtasks, draining, inits,
                 timers, isAvailable, now, nextSubId, emits, calls, saveCalls>>
  /\ UNCHANGED <<calcVars, destroyed>>

\* a task calls restoreBackup(backupData)
RestoreBackup(backupData) ==
  /\ steps < MaxSteps
  /\ \E R \in {restoreBackup(storage, backupData)} :
       /\ storage' = R.storage
       /\ ret' = [op |-> "restoreBackup", field |-> "", data |-> Str(backupData),
                  result |-> <<R.success, R.error>>]
  /\ last' = [NoOp EXCEPT !.op = "restoreBackup"]
  /\ steps' = steps + 1
  /\ UNCHANGED <<state, history, subscribers, isLoading, microtasks, draining, inits,
                 timers, isAvailable, now, nextSubId, emits, calls, saveCalls>>
  /\ UNCHANGED <<calcVars, destroyed>>

\* a task calls clearAllData()
ClearAllData ==
  /\ steps < MaxSteps
  /\ \E R \in {clearAllData(storage)} :
       /\ storage' = R.storage
       /\ ret' = [op |-> "clearAllData", field |-> "", data |-> Undefined,
                  result |-> <<R.success, R.error>>]
  /\ last' = [NoOp EXCEPT !.op = "clearAllData"]
  /\ steps' = steps + 1
  /\ UNCHANGED <<state, history, subscribers, isLoading, microtasks, draining, inits,
                 timers, isAvailable, now, nextSubId, emits, calls, saveCalls>>
  /\ UNCHANGED <<calcVars, destroyed>>

StorageNext ==
  \/ \E item \in StoredItems : SetItem(item[1], item[2])
  \/ \E key \in StoreKeys : GetItem(key)
  \/ \E key \in StoreKeys : RemoveItem(key)
  \/ \E keys \in {{"prefs"}, {"calcs"}, StoreKeys} : Clear(keys)
  \/ GetAllItems
  \/ \E calculation \in SavedCalculations, id \in GeneratedIds :
       SaveCalculation(calculation, id)
  \/ \E id \in CalculationIds : DeleteCalculation(id)
  \/ \E id \in CalculationIds, updatedData \in CalculationUpdates :
       UpdateCalculation(id, updatedData)
  \/ \E preferences \in PreferenceChanges : SavePreferences(preferences)
  \/ \E backupData \in BackupTexts : RestoreBackup(backupData)
  \/ ClearAllData

StorageSpec == AppInit /\ [][StorageNext]_vars

\* the storage operations that report through a StorageResult
StorageOperations ==
  {"setItem", "getItem", "removeItem", "clear", "getAllItems", "saveCalculation",
   "deleteCalculation", "updateCalculation", "savePreferences", "restoreBackup",
   "clearAllData"}

\* C21: when the backing store is unavailable, every storage operation
\* returns a result whose success flag is false (no operation of the model
\* throws: each returns a result)
C21_UnavailableStoreReported ==
  ~isAvailable /\ ret.op \in StorageOperations => ret.result[1] = FALSE


(***************************************************************************)
(* Reset, destruction and the auto-save timer of the state container       *)
(***************************************************************************)
\* a variant that persists only when auto-save is on
resetStateWhenAutoSave(M, preserveSettings) ==
  LET defaultState == IF preserveSettings
                      THEN PutProp(getDefaultState, "settings",
                                   ObjectSpread(EmptyObj, GetProp(M.state, "settings")))
                      ELSE getDefaultState
  IN With([M EXCEPT !.state = defaultState, !.history = <<>>], LAMBDA M1 :
     With(emit(M1, "state:reset", M1.state), LAMBDA M2 :
       IF autoSaveEnabled(M2) THEN saveToStorage(M2) ELSE M2))

\* StateManager.resetState
resetState(M, preserveSettings) ==
  LET currentSettings == IF preserveSettings
                         THEN ObjectSpread(EmptyObj, GetProp(M.state, "settings"))
                         ELSE EmptyObj
      defaultState == IF preserveSettings
                      THEN PutProp(getDefaultState, "settings", currentSettings)
                      ELSE getDefaultState
  IN With([M EXCEPT !.state = defaultState, !.history = <<>>], LAMBDA M1 :
       saveToStorage(emit(M1, "state:reset", M1.state)))

\* a task calls resetState(preserveSettings)
ResetState(preserveSettings) ==
  /\ ~draining
  /\ steps < MaxSteps
  /\ \E M \in {resetState(Context, preserveSettings)} : Commit(M)
  /\ last' = [NoOp EXCEPT !.op = "resetState", !.value = Bool(preserveSettings)]
  /\ steps' = steps + 1
  /\ UNCHANGED <<subscribers, draining, inits, timers, isAvailable, now, nextSubId>>
  /\ UNCHANGED <<calcVars, apiVars>>

\* the writes of a session
LifeSetStateInputs ==
  { <<"settings.autoSave", Bool(FALSE)>>, <<"settings.autoSave", Bool(TRUE)>>,
    <<"ui.theme", Str("dark")>>, <<"form.isDirty", Bool(TRUE)>> }

\* StateManager.destroy, on the context (the subscriptions are dropped by
\* the action)
destroy(M) == saveToStorage([M EXCEPT !.history = <<>>])

\* the callback of the interval setupAutoSave arms
autoSaveTimer(M) ==
  IF autoSaveEnabled(M) /\ Truthy(getValueAtPath(M.state, "app.hasUnsavedChanges"))
  THEN saveToStorage(M)
  ELSE M

\* a task calls destroy()
Destroy ==
  /\ ~draining
  /\ ~destroyed
  /\ steps < MaxSteps
  /\ \E M \in {destroy(Context)} : Commit(M)
  /\ subscribers' = [k \in SubKeys |-> <<>>]
  /\ destroyed' = TRUE
  /\ last' = [NoOp EXCEPT !.op = "destroy"]
  /\ steps' = steps + 1
  /\ UNCHANGED <<draining, inits, timers, isAvailable, now, nextSubId>>
  /\ UNCHANGED <<calcVars, ret>>

\* one of the armed intervals fires: a task of its own, which starts only
\* when the microtask queue is empty
AutoSaveTimer ==
  /\ timers > 0
  /\ microtasks = <<>>
  /\ \E M \in {autoSaveTimer(Context)} : Commit(M)
  /\ last' = [NoOp EXCEPT !.op = "autoSaveTimer"]
  /\ UNCHANGED <<subscribers, draining, inits, timers, isAvailable, now, nextSubId, steps>>
  /\ UNCHANGED <<calcVars, apiVars>>

\* an assignment a caller makes on a snapshot
LifeSnapshotWrites == {<<"settings.autoSave", Bool(TRUE)>>}

LifeNext ==
  \/ \E in \in LifeSetStateInputs : SetState(in[1], in[2])
  \/ \E preserveSettings \in BOOLEAN : ResetState(preserveSettings)
  \/ \E in \in LifeSnapshotWrites : WriteSnapshot(in[1], in[2])
  \/ Destroy
  \/ AutoSaveTimer
  \/ SaveResume
  \/ Tick

LifeSpec == AppInit /\ [][LifeNext]_vars

\* the step just taken is a call of resetState
ResetStateStep == last'.op = "resetState" /\ steps' = steps + 1

\* C22: when resetState(preserveSettings) returns, every sub-tree other than
\* `settings` equals the default tree, `settings` equals the settings before
\* the reset if preserveSettings and the default settings otherwise, the
\* change log is empty, and a write of the preferences has been issued
\* whatever the auto-save setting
C22_Reset ==
  [][ResetStateStep =>
       /\ DOMAIN state'.f = DOMAIN getDefaultState.f
       /\ \A k \in DOMAIN getDefaultState.f \ {"settings"} :
            state'.f[k] = getDefaultState.f[k]
       /\ state'.f["settings"] = IF last'.value = Bool(TRUE)
                                 THEN state.f["settings"]
                                 ELSE getDefaultState.f["settings"]
       /\ history' = <<>>
       /\ saveCalls' = 1
       /\ isAvailable =>
            storage'.prefs = JsonRoundTrip(Spread(getPreferences(storage)[2],
                                                  preferencesOf(state')))]_vars

\* C22 witness: a reset that preserved settings with auto-save off came back
\* with the theme at its default, an empty change log and the preferences
\* written
C22_Witness ==
  /\ last.op = "resetState"
  /\ last.value = Bool(TRUE)
  /\ getValueAtPath(state, "settings.autoSave") = Bool(FALSE)
  /\ getValueAtPath(state, "ui.theme") = Str("light")
  /\ history = <<>>
  /\ saveCalls = 1
  /\ isAvailable
  /\ GetProp(storage.prefs, "theme") = Str("light")
  /\ GetProp(storage.prefs, "autoSave") = Bool(FALSE)


\* C23: in every reachable state of the container the change log holds at
\* most maxHistoryLength (50) records
C23_ChangeLogBound == Len(history) <= maxHistoryLength


\* the step just taken is a call of destroy / a firing of the timer
DestroyStep == last'.op = "destroy" /\ steps' = steps + 1
AutoSaveTimerStep == last'.op = "autoSaveTimer"

\* C24: destroy() performs a final save, and once it has been called no
\* firing of the auto-save timer starts a save
C24_DestroyStopsTimer ==
  [][/\ DestroyStep => saveCalls' = 1
     /\ destroyed /\ AutoSaveTimerStep => saveCalls' = 0]_vars


\* the step just taken completed a saveToStorage that was started as the last
\* statement of resetState, of destroy or of the timer's callback: no write
\* to the state tree lies between its start and its completion
SaveAloneStep ==
  /\ last.op \in {"resetState", "destroy", "autoSaveTimer"}
  /\ saveCalls = 1
  /\ microtasks = <<"save">>
  /\ last'.op = "saveResume"

\* C25: when a saveToStorage completes with no other write to the state tree
\* since it started, app.hasUnsavedChanges is false
C25_CleanAfterSave ==
  [][SaveAloneStep =>
       getValueAtPath(state', "app.hasUnsavedChanges") = Bool(FALSE)]_vars


(***************************************************************************)
(* One write and the saves it starts.  Nothing bounds the number of        *)
(* completed saves here; of the saves pending at once only the first       *)
(* MaxPending are recorded, so the queue of this specification is never    *)
(* longer than the program's and an empty queue there is an empty queue    *)
(* here.  The clock stands still.  last.value alternates with every        *)
(* completed save, so that two successive saves are two states.            *)
(***************************************************************************)
MaxPending == 3

\* the microtask at the head of the queue is a saveToStorage(): its rest
SaveCompletes ==
  /\ microtasks # <<>>
  /\ Head(microtasks) = "save"
  /\ \E M \in {saveToStorageResume([Context EXCEPT !.microtasks = Tail(microtasks)])} :
       /\ state' = M.state
       /\ history' = M.history
       /\ isLoading' = M.isLoading
       /\ storage' = M.storage
       /\ microtasks' = KeepFirst(M.microtasks, MaxPending)
       /\ emits' = M.emits
       /\ calls' = M.calls
       /\ saveCalls' = M.saveCalls
       /\ draining' = (M.microtasks # <<>>)
  /\ last' = [NoOp EXCEPT !.op = "saveResume",
                          !.value = Bool(last.value # Bool(TRUE))]
  /\ UNCHANGED <<subscribers, inits, timers, isAvailable, now, nextSubId, steps>>
  /\ UNCHANGED <<calcVars, apiVars>>

QuietNext ==
  \/ \E in \in LifeSetStateInputs : steps = 0 /\ SetState(in[1], in[2])
  \/ SaveCompletes

QuietSpec == AppInit /\ [][QuietNext]_vars /\ WF_vars(SaveCompletes)

\* the single write has been made with auto-save on and has started a save
WriteStartedSave ==
  /\ steps = 1
  /\ last.op = "setState"
  /\ autoSaveEnabled(Context)
  /\ microtasks # <<>>

\* C26: with auto-save on and initialisation finished, after a single
\* state-changing setState and no further input the container eventually
\* reaches a state in which no save is pending
C26_SaveQuiescence == WriteStartedSave ~> (microtasks = <<>>)


\* C27: with input validation enabled, every HPPResult calculate has built
\* and returned has isValid = true
C27_ReturnedResultsValid ==
  options.validateInput => \A i \in 1..Len(results) : results[i].isValid


\* C28: after handleCalculation finishes, with a result or with an error,
\* calculation.isCalculating and ui.isCalculating are both false
C28_CalculatingFlagsCleared ==
  [][last'.op = "handleCalculation" /\ steps' = steps + 1 =>
       /\ getValueAtPath(state', "calculation.isCalculating") = Bool(FALSE)
       /\ getValueAtPath(state', "ui.isCalculating") = Bool(FALSE)]_vars


\* calculate, on an engine that validates its input, rejects the data
RejectedByCalculate(inputData) ==
  /\ inputData \notin {Null, Undefined}
  /\ options.validateInput
  /\ calculate(Engine, inputData).kind = "threw"

\* C29: calculateDetailed returns success = false with result = null for
\* every input that calculate (with validation enabled) rejects
C29_DetailedValidates ==
  ret.op = "calculateDetailed" /\ RejectedByCalculate(ret.data) =>
    /\ ret.result.success = FALSE
    /\ ret.result.result = Null


\* C30: the entries history.calculations holds when a saveToStorage has
\* completed are in history.calculations of the container constructed next
\* on the same storage
C30_HistorySurvivesReload ==
  [][last.op = "saveResume" /\ last'.op = "reload" =>
       \A i \in 1..Len(Calculations(state)) :
         \E j \in 1..Len(Calculations(state')) :
           Calculations(state')[j] = Calculations(state)[i]]_vars

=============================================================================
